---- MODULE Spec2Model ----
\* Entitlement & commerce integrity of the Auth0 (FastAPI) backend:
\* cart, checkout/order pipeline, purchase records and the DRM gate.
\* Every request is served by a worker; a handler's database round trips
\* (one session each) are the steps at which other workers interleave.
EXTENDS Integers, Sequences, FiniteSets, TLC

VARIABLES
    books,        \* catalog: book id -> [price, is_available, filepath]
    files,        \* bare file names present in the private_books directory
    flask,        \* the store of the Flask backend: [purchases, next_id]
    carts,        \* rows of table carts: [id, user_id]
    cartItems,    \* rows of table cart_items
    orders,       \* rows of table orders
    orderItems,   \* rows of table order_items
    purchases,    \* rows of table purchases (the entitlements)
    paymentLog,   \* order ids handed to the payment gateway, in call order
    nextId,       \* autoincrement counters, one per table
    pc,           \* worker -> position inside the handler it is serving
    local,        \* worker -> local variables of the running handler
    resp,         \* the HTTP response sent by the latest step, NoResp if none
    started,      \* number of requests accepted so far
    catalogChanges \* number of administrative catalog edits so far

vars == <<books, files, flask, carts, cartItems, orders, orderItems, purchases,
          paymentLog, nextId, pc, local, resp, started, catalogChanges>>

----------------------------------------------------------------------------
\* Bounds of the exploration
MaxRequests == 3
MaxCatalogChanges == 1

\* Program constants
MaxQuantity == 10

Workers == {1, 2}
Users == {"auth0|user1", "auth0|user2"}
BookIds == {1, 2}
ReqBookIds == {1, 2, 9}
Prices == {2, 3}
TitleOf == [b \in BookIds |-> IF b = 1 THEN "Dune" ELSE "Emma"]
AuthorOf == [b \in BookIds |-> IF b = 1 THEN "Herbert" ELSE "Austen"]
Titles == {"Dune", "Emma", "Dune (2nd ed.)"}
\* what a subject sends with a checkout besides the card
PaymentMethodOf ==
    [u \in Users |-> IF u = "auth0|user1" THEN "dummy" ELSE "credit_card"]
ShippingAddressOf ==
    [u \in Users |-> IF u = "auth0|user1" THEN "1 Nile Street, Cairo"
                     ELSE "2 Tahrir Square, Cairo"]
QtyInputs == {4, 7, 15}
SmallQtyInputs == {2, 3}
UpdateQtyInputs == {0, 3, 11}
ItemIdsAsked == {1, 2, 9}
OrderNumbersAsked == {1, 2, 99}

NoCard == <<>>
CardOk == <<0,0,0,0, 1,2,3,4, 5,6,7,8, 9,0,0,1>>
CardDeclined == <<1,2,3,4, 5,6,7,8, 9,0,1,2, 0,0,0,0>>
Cards == {NoCard, CardOk, CardDeclined}

BasePath == <<"p">>
NoPath == <<>>

----------------------------------------------------------------------------
\* Generic helpers over rows

RECURSIVE SortById(_)
SortById(rows) ==
    IF rows = {} THEN <<>>
    ELSE LET r == CHOOSE x \in rows : \A y \in rows : x.id <= y.id
         IN <<r>> \o SortById(rows \ {r})

\* result.scalars().first(): the first row of a result set, None when empty
First(rows) == IF rows = {} THEN {} ELSE {SortById(rows)[1]}

NoLocal == [op |-> "none", user |-> "", book |-> 0, card |-> NoCard,
            items |-> <<>>, order_id |-> 0, order_number |-> 0,
            total |-> 0, status |-> "", pay |-> "", quantity |-> 0,
            cart_id |-> 0, query |-> <<>>, payment_method |-> "",
            shipping_address |-> "", limit |-> 0, offset |-> 0,
            sort_by |-> "", category |-> "", min_price |-> 0 - 1,
            max_price |-> 0 - 1, purchase_id |-> 0, download_count |-> 0]

NoResp == [op |-> "none", worker |-> 0, user |-> "", book |-> 0, code |-> 0,
           detail |-> "", order_id |-> 0, order_number |-> 0, total |-> 0,
           status |-> "", payment_status |-> "", path |-> NoPath,
           asked |-> 0, items |-> <<>>, total_items |-> 0, quantity |-> 0,
           query |-> <<>>, clean |-> <<>>,
           limit |-> 0, offset |-> 0, sort_by |-> "",
           asked_limit |-> 0, asked_offset |-> 0, asked_sort |-> "",
           raised |-> "", leak |-> "", category |-> "", min_price |-> 0 - 1,
           max_price |-> 0 - 1, has_more |-> FALSE, purchase_id |-> 0]

Reply(op, u, b, code, detail) ==
    [NoResp EXCEPT !.op = op, !.user = u, !.book = b, !.code = code,
                   !.detail = detail]

----------------------------------------------------------------------------
\* CartDAO

\* the cart lookup without its where clause
CartOf_any_user(u) == First(carts)

\* select(Cart).where(Cart.user_id == user_id) ... first()
CartOf(u) == First({c \in carts : c.user_id = u})

\* CartDAO.get_cart: lines of the user's cart joined with their books
RECURSIVE CartLoop(_, _)
CartLoop(rows, acc) ==
    IF rows = <<>> THEN acc
    ELSE LET cart_item == Head(rows)
             subtotal == cart_item.price_at_addition * cart_item.quantity
         IN CartLoop(Tail(rows),
                [items |-> Append(acc.items,
                               [id |-> cart_item.id,
                                book_id |-> cart_item.book_id,
                                quantity |-> cart_item.quantity,
                                price |-> cart_item.price_at_addition,
                                subtotal |-> subtotal]),
                 total_items |-> acc.total_items + cart_item.quantity,
                 total_amount |-> acc.total_amount + subtotal])

\* a get_cart that prices the lines from the catalog
get_cart_catalog_prices(u) ==
    LET empty == [items |-> <<>>, total_items |-> 0, total_amount |-> 0]
    IN IF CartOf(u) = {} THEN empty
       ELSE LET cart == CHOOSE c \in CartOf(u) : TRUE
                rows == {ci \in cartItems : ci.cart_id = cart.id
                                            /\ ci.book_id \in DOMAIN books}
            IN CartLoop(SortById({[ci EXCEPT !.price_at_addition =
                                      books[ci.book_id].price] : ci \in rows}),
                        empty)

get_cart(u) ==
    LET empty == [items |-> <<>>, total_items |-> 0, total_amount |-> 0]
    IN IF CartOf(u) = {} THEN empty
       ELSE LET cart == CHOOSE c \in CartOf(u) : TRUE
                rows == {ci \in cartItems : ci.cart_id = cart.id
                                            /\ ci.book_id \in DOMAIN books}
            IN CartLoop(SortById(rows), empty)

\* CartDAO.get_or_create_cart, as the pair (cart id, carts table afterwards)
get_or_create_cart(u) ==
    IF CartOf(u) # {}
    THEN [id |-> (CHOOSE c \in CartOf(u) : TRUE).id, carts |-> carts]
    ELSE [id |-> nextId.cart,
          carts |-> carts \cup {[id |-> nextId.cart, user_id |-> u]}]

\* a book check that ignores the availability flag
book_error_existence_only(b) ==
    IF b \notin DOMAIN books THEN "Book not found" ELSE ""

\* the ValueError of add_item's book check, "" when the book passes
book_error(b) ==
    IF b \notin DOMAIN books THEN "Book not found"
    ELSE IF ~books[b].is_available THEN "Book is not available"
    ELSE ""

\* a limit that looks at the requested quantity alone
over_limit_requested_only(existing_item, q) == q > MaxQuantity

\* new_quantity = existing_item.quantity + quantity; new_quantity > 10
over_limit(existing_item, q) == existing_item.quantity + q > MaxQuantity

\* CartDAO.add_item inside one session; the outcome is the committed tables
\* and the error (a ValueError message) or "" on success
add_item(u, b, q) ==
    LET unchanged == [carts |-> carts, cartItems |-> cartItems, item_id |-> 0]
    IN IF book_error(b) # ""
       THEN unchanged @@ [err |-> book_error(b)]
       ELSE LET c == get_or_create_cart(u)
                existing == First({ci \in cartItems :
                                     ci.cart_id = c.id /\ ci.book_id = b})
            IN IF existing # {}
               THEN LET existing_item == CHOOSE ci \in existing : TRUE
                    IN IF over_limit(existing_item, q)
                       THEN unchanged @@
                            [err |-> "Maximum 10 of same item allowed in cart"]
                       ELSE [carts |-> c.carts,
                             cartItems |->
                                (cartItems \ {existing_item}) \cup
                                {[existing_item EXCEPT
                                    !.quantity = existing_item.quantity + q]},
                             item_id |-> existing_item.id,
                             err |-> ""]
               ELSE [carts |-> c.carts,
                     cartItems |-> cartItems \cup
                        {[id |-> nextId.item, cart_id |-> c.id, book_id |-> b,
                          quantity |-> q,
                          price_at_addition |-> books[b].price]},
                     item_id |-> nextId.item,
                     err |-> ""]

\* a clear_cart whose delete matches the line id instead of the cart id
clear_cart_wrong_column(u) ==
    IF CartOf(u) = {} THEN cartItems
    ELSE LET cart == CHOOSE c \in CartOf(u) : TRUE
         IN {ci \in cartItems : ci.id # cart.id}

\* CartDAO.clear_cart: the cart_items table after the delete
clear_cart(u) ==
    IF CartOf(u) = {} THEN cartItems
    ELSE LET cart == CHOOSE c \in CartOf(u) : TRUE
         IN {ci \in cartItems : ci.cart_id # cart.id}

----------------------------------------------------------------------------
\* Request intake

\* what str(e) is for the exceptions a store can raise under a handler
Exceptions ==
    {"(psycopg2.OperationalError) server closed the connection unexpectedly",
     "(psycopg2.errors.ForeignKeyViolation) insert or update on table"}

\* a request goes to the first idle worker
Accept(w) ==
    /\ pc[w] = "idle"
    /\ \A v \in Workers : v < w => pc[v] # "idle"
    /\ started < MaxRequests

Finish(w, r) ==
    /\ pc' = [pc EXCEPT ![w] = "idle"]
    /\ local' = [local EXCEPT ![w] = NoLocal]
    /\ resp' = [r EXCEPT !.worker = w]

Goto(w, label, l) ==
    /\ pc' = [pc EXCEPT ![w] = label]
    /\ local' = [local EXCEPT ![w] = l]
    /\ resp' = NoResp

\* a request schema without the upper limit on quantity
AddToCartRequest_unlimited(b, q) == b > 0 /\ q >= 1

\* AddToCartRequest: book_id gt 0, quantity ge 1 and le 10
AddToCartRequest(b, q) == b > 0 /\ q >= 1 /\ q <= MaxQuantity

\* the responses of add_to_cart: 201, 422 from the request model, 400 for
\* a ValueError of the DAO
AddToCartReply(u, b, q, err) ==
    [(IF err = ""
      THEN [Reply("add_to_cart", u, b, 201, "Item added to cart")
              EXCEPT !.total_items = q]
      ELSE IF err = "validation"
      THEN Reply("add_to_cart", u, b, 422, "validation")
      ELSE IF err = "storage"
      THEN Reply("add_to_cart", u, b, 500, "Failed to add item to cart")
      ELSE Reply("add_to_cart", u, b, 400, err))
       EXCEPT !.quantity = q]

\* POST /cart/items when nothing interleaves with its session
AddToCart(w) ==
    \E u \in Users, b \in ReqBookIds, q \in QtyInputs :
        LET r == IF AddToCartRequest(b, q) THEN add_item(u, b, q)
                 ELSE [carts |-> carts, cartItems |-> cartItems,
                       item_id |-> 0, err |-> "validation"]
        IN /\ Accept(w)
           /\ started' = started + 1
           /\ carts' = r.carts
           /\ cartItems' = r.cartItems
           /\ nextId' = [nextId EXCEPT
                           !.cart = IF r.carts # carts THEN @ + 1 ELSE @,
                           !.item = IF r.item_id = @ THEN @ + 1 ELSE @]
           /\ Finish(w, AddToCartReply(u, b, q, r.err))
           /\ UNCHANGED <<books, files, flask, orders, orderItems, purchases,
                          paymentLog, catalogChanges>>

\* DELETE /cart
ClearCart(w) ==
    \E u \in Users :
        /\ Accept(w)
        /\ started' = started + 1
        /\ cartItems' = clear_cart(u)
        /\ Finish(w, Reply("clear_cart", u, 0, 200, "Cart cleared successfully"))
        /\ UNCHANGED <<books, files, flask, carts, orders, orderItems, purchases,
                       paymentLog, nextId, catalogChanges>>

\* GET /cart
GetCart(w) ==
    \E u \in Users :
        LET cart_data == get_cart(u)
        IN /\ Accept(w)
           /\ started' = started + 1
           /\ Finish(w, [Reply("get_cart", u, 0, 200, "") EXCEPT
                           !.items = cart_data.items,
                           !.total_items = cart_data.total_items,
                           !.total = cart_data.total_amount])
           /\ UNCHANGED <<books, files, flask, carts, cartItems, orders, orderItems,
                          purchases, paymentLog, nextId, catalogChanges>>

\* an ownership lookup that matches the line id only
owned_cart_item_any_user(item_id, u) ==
    First({ci \in cartItems : ci.id = item_id})

\* select(CartItem).join(Cart).where(CartItem.id == item_id,
\* Cart.user_id == user_id) ... first()
owned_cart_item(item_id, u) ==
    First({ci \in cartItems :
             /\ ci.id = item_id
             /\ \E c \in carts : c.id = ci.cart_id /\ c.user_id = u})

\* an update that prices the line anew
update_quantity_repricing(item_id, u, quantity) ==
    LET found == owned_cart_item(item_id, u)
    IN IF found = {}
       THEN [cartItems |-> cartItems, err |-> "Cart item not found"]
       ELSE IF quantity > MaxQuantity
       THEN [cartItems |-> cartItems,
             err |-> "Maximum 10 of same item allowed"]
       ELSE LET cart_item == CHOOSE ci \in found : TRUE
            IN [cartItems |-> (cartItems \ {cart_item}) \cup
                                {[cart_item EXCEPT
                                    !.quantity = quantity,
                                    !.price_at_addition =
                                        books[cart_item.book_id].price]},
                err |-> ""]

\* CartDAO.update_quantity: the cart_items table afterwards and the error
update_quantity(item_id, u, quantity) ==
    LET found == owned_cart_item(item_id, u)
    IN IF found = {}
       THEN [cartItems |-> cartItems, err |-> "Cart item not found"]
       ELSE IF quantity > MaxQuantity
       THEN [cartItems |-> cartItems,
             err |-> "Maximum 10 of same item allowed"]
       ELSE LET cart_item == CHOOSE ci \in found : TRUE
            IN [cartItems |-> (cartItems \ {cart_item}) \cup
                                {[cart_item EXCEPT !.quantity = quantity]},
                err |-> ""]

\* CartDAO.remove_item: the cart_items table afterwards and the error
remove_item(item_id, u) ==
    LET found == owned_cart_item(item_id, u)
    IN IF found = {}
       THEN [cartItems |-> cartItems, err |-> "Cart item not found"]
       ELSE [cartItems |-> cartItems \ found, err |-> ""]

\* PUT /cart/items/{item_id}?quantity= ; quantity ge 0 and le 10, and 0
\* removes the line; every ValueError of the DAO becomes 404
UpdateCartItem(w) ==
    \E u \in Users, item_id \in ItemIdsAsked, quantity \in UpdateQtyInputs :
        LET valid == item_id > 0 /\ quantity >= 0 /\ quantity <= MaxQuantity
            r == IF ~valid THEN [cartItems |-> cartItems, err |-> "validation"]
                 ELSE IF quantity = 0 THEN remove_item(item_id, u)
                 ELSE update_quantity(item_id, u, quantity)
            reply == IF ~valid THEN Reply("update_cart_item", u, 0, 422, r.err)
                     ELSE IF r.err # ""
                     THEN Reply("update_cart_item", u, 0, 404, r.err)
                     ELSE IF quantity = 0
                     THEN Reply("update_cart_item", u, 0, 200,
                                "Item removed from cart")
                     ELSE [Reply("update_cart_item", u, 0, 200,
                                 "Cart item updated")
                             EXCEPT !.total_items = quantity]
        IN /\ Accept(w)
           /\ started' = started + 1
           /\ cartItems' = r.cartItems
           /\ Finish(w, [reply EXCEPT !.asked = item_id,
                                       !.quantity = quantity])
           /\ UNCHANGED <<books, files, flask, carts, orders, orderItems, purchases,
                          paymentLog, nextId, catalogChanges>>

\* DELETE /cart/items/{item_id}
RemoveFromCart(w) ==
    \E u \in Users, item_id \in ItemIdsAsked :
        LET r == remove_item(item_id, u)
        IN /\ Accept(w)
           /\ started' = started + 1
           /\ cartItems' = r.cartItems
           /\ Finish(w, [(IF r.err # ""
                           THEN Reply("remove_from_cart", u, 0, 404, r.err)
                           ELSE Reply("remove_from_cart", u, 0, 200,
                                      "Item removed from cart"))
                            EXCEPT !.asked = item_id])
           /\ UNCHANGED <<books, files, flask, carts, orders, orderItems, purchases,
                          paymentLog, nextId, catalogChanges>>

----------------------------------------------------------------------------
\* POST /cart/items when other sessions interleave with its session: the
\* reads of CartDAO.add_item see the committed tables, its writes become
\* visible at the commit

\* the tables carts and cart_items carry no uniqueness constraint: the only
\* one the store enforces is the one on purchases
carts_admits(u) == TRUE

cart_items_admits(cart_id, b) == TRUE

\* the reads: book, cart, existing line, and the quantity limit
AddItemReadOf(w, quantities) ==
    \E u \in Users, b \in ReqBookIds, q \in quantities :
        LET cart == CartOf(u)
            cart_id == IF cart = {} THEN 0 ELSE (CHOOSE c \in cart : TRUE).id
            existing == First({ci \in cartItems :
                                 ci.cart_id = cart_id /\ ci.book_id = b})
            err == IF ~AddToCartRequest(b, q) THEN "validation"
                   ELSE IF book_error(b) # "" THEN book_error(b)
                   ELSE IF existing # {} /\
                           over_limit(CHOOSE ci \in existing : TRUE, q)
                   THEN "Maximum 10 of same item allowed in cart"
                   ELSE ""
        IN /\ Accept(w)
           /\ started' = started + 1
           /\ IF err # ""
              THEN Finish(w, AddToCartReply(u, b, q, err))
              ELSE Goto(w, "ai_write",
                        [NoLocal EXCEPT !.op = "add_to_cart", !.user = u,
                             !.book = b, !.quantity = q, !.cart_id = cart_id,
                             !.items = SortById(existing),
                             !.total = books[b].price])
           /\ UNCHANGED <<books, files, flask, carts, cartItems, orders, orderItems,
                          purchases, paymentLog, nextId, catalogChanges>>

AddItemRead(w) == AddItemReadOf(w, QtyInputs)

\* the same reads for requests of a few units
AddItemReadSmall(w) == AddItemReadOf(w, SmallQtyInputs)

\* the flushes and the commit: the cart row if none was found, then the
\* update of the line that was read or the insert of a new line
AddItemWrite(w) ==
    LET l == local[w]
        new_cart == l.cart_id = 0
        cart_id == IF new_cart THEN nextId.cart ELSE l.cart_id
        failed == \/ new_cart /\ ~carts_admits(l.user)
                  \/ l.items = <<>> /\ ~cart_items_admits(cart_id, l.book)
                  \/ l.items # <<>> /\
                     ~ \E ci \in cartItems : ci.id = l.items[1].id
    IN /\ pc[w] = "ai_write"
       /\ IF failed
          THEN /\ Finish(w, AddToCartReply(l.user, l.book, l.quantity,
                                            "storage"))
               /\ UNCHANGED <<carts, cartItems, nextId>>
          ELSE /\ carts' = IF new_cart
                           THEN carts \cup {[id |-> cart_id,
                                             user_id |-> l.user]}
                           ELSE carts
               /\ cartItems' =
                    IF l.items # <<>>
                    THEN {IF ci.id = l.items[1].id
                          THEN [ci EXCEPT !.quantity =
                                      l.items[1].quantity + l.quantity]
                          ELSE ci : ci \in cartItems}
                    ELSE cartItems \cup
                           {[id |-> nextId.item, cart_id |-> cart_id,
                             book_id |-> l.book, quantity |-> l.quantity,
                             price_at_addition |-> l.total]}
               /\ nextId' = [nextId EXCEPT
                               !.cart = IF new_cart THEN @ + 1 ELSE @,
                               !.item = IF l.items = <<>> THEN @ + 1 ELSE @]
               /\ Finish(w, AddToCartReply(l.user, l.book, l.quantity, ""))
       /\ UNCHANGED <<books, files, flask, orders, orderItems, purchases,
                      paymentLog, started, catalogChanges>>

----------------------------------------------------------------------------
\* Checkout: routes/checkout.py create_order over OrderDAO and CartDAO

\* str.endswith
EndsWith(s, suffix) ==
    /\ Len(s) >= Len(suffix)
    /\ SubSeq(s, Len(s) - Len(suffix) + 1, Len(s)) = suffix

DeclineSuffix == <<0, 0, 0, 0>>

\* str.startswith
StartsWith(s, prefix) ==
    /\ Len(s) >= Len(prefix)
    /\ SubSeq(s, 1, Len(prefix)) = prefix

\* a gateway that leaves a declined payment open
process_dummy_payment_pending(card_number) ==
    IF card_number # NoCard /\ EndsWith(card_number, DeclineSuffix)
    THEN "pending"
    ELSE "completed"

\* a gateway that tests the head of the card number instead of its tail
process_dummy_payment_startswith(card_number) ==
    IF card_number # NoCard /\ StartsWith(card_number, DeclineSuffix)
    THEN "failed"
    ELSE "completed"

\* process_dummy_payment: the status the dummy gateway returns
process_dummy_payment(card_number) ==
    IF card_number # NoCard /\ EndsWith(card_number, DeclineSuffix)
    THEN "failed"
    ELSE "completed"

\* a price taken from the cart line (the snapshot the client saw)
item_price_from_cart(cart_item) == cart_item.price

\* item_price = Decimal(str(book.price)): the catalog price read now
item_price(cart_item) == books[cart_item.book_id].price

\* the price loop of OrderDAO.create_order (current catalog price per line)
RECURSIVE OrderLoop(_, _)
OrderLoop(cart_items, acc) ==
    IF cart_items = <<>> \/ acc.err # "" THEN acc
    ELSE LET cart_item == Head(cart_items)
         IN IF cart_item.book_id \notin DOMAIN books
            THEN [acc EXCEPT !.err = "Book not found"]
            ELSE IF ~books[cart_item.book_id].is_available
            THEN [acc EXCEPT !.err = "Book is not available"]
            ELSE LET price == item_price(cart_item)
                     item_quantity == cart_item.quantity
                     subtotal == price * item_quantity
                 IN OrderLoop(Tail(cart_items),
                        [err |-> "",
                         total_amount |-> acc.total_amount + subtotal,
                         order_items_data |-> Append(acc.order_items_data,
                             [book_id |-> cart_item.book_id,
                              book_title |->
                                  books[cart_item.book_id].title,
                              book_author |->
                                  books[cart_item.book_id].author,
                              quantity |-> item_quantity,
                              price |-> price,
                              subtotal |-> subtotal])])

\* OrderDAO.create_order up to the commit: the error or the rows to insert
create_order(cart_items) ==
    IF cart_items = <<>>
    THEN [err |-> "Cannot create order with empty cart", total_amount |-> 0,
          order_items_data |-> <<>>]
    ELSE OrderLoop(cart_items,
                   [err |-> "", total_amount |-> 0, order_items_data |-> <<>>])

\* an update without its where clause: every order takes the status
update_payment_status_every_order(order_id, payment_status) ==
    {[o EXCEPT !.payment_status = payment_status,
               !.status = IF payment_status \in {"completed", "failed"}
                          THEN payment_status ELSE @]
     : o \in orders}

\* an update that also writes the amount of a failed order off
update_payment_status_zeroes_failed(order_id, payment_status) ==
    {IF o.id = order_id
     THEN [o EXCEPT !.payment_status = payment_status,
                    !.status = IF payment_status \in {"completed", "failed"}
                               THEN payment_status ELSE @,
                    !.total_amount = IF payment_status = "failed"
                                     THEN 0 ELSE @]
     ELSE o : o \in orders}

\* OrderDAO.update_payment_status: the orders table after the commit
update_payment_status(order_id, payment_status) ==
    {IF o.id = order_id
     THEN [o EXCEPT !.payment_status = payment_status,
                    !.status = IF payment_status \in {"completed", "failed"}
                               THEN payment_status ELSE @]
     ELSE o : o \in orders}

\* the OrderResponse built at the end of routes/checkout.py create_order
OrderResponse(l, payment_status) ==
    [Reply("checkout", l.user, 0, 201, "") EXCEPT
        !.order_id = l.order_id, !.order_number = l.order_number,
        !.total = l.total, !.status = l.status,
        !.payment_status = payment_status]

\* POST /checkout, step 1: read the cart, reject an empty one, draw the
\* order number
CheckoutGetCart(w) ==
    \E u \in Users, card \in Cards :
        LET cart == get_cart(u)
        IN /\ Accept(w)
           /\ started' = started + 1
           /\ IF cart.items = <<>>
              THEN /\ Finish(w, Reply("checkout", u, 0, 400, "Cart is empty"))
                   /\ UNCHANGED nextId
              ELSE /\ Goto(w, "co_create",
                           [NoLocal EXCEPT !.op = "checkout", !.user = u,
                                !.card = card, !.items = cart.items,
                                !.payment_method = PaymentMethodOf[u],
                                !.shipping_address = ShippingAddressOf[u],
                                !.order_number = nextId.order_number])
                   /\ nextId' = [nextId EXCEPT !.order_number = @ + 1]
           /\ UNCHANGED <<books, files, flask, carts, cartItems, orders, orderItems,
                          purchases, paymentLog, catalogChanges>>

\* step 2: OrderDAO.create_order, one transaction
CheckoutCreateOrder(w) ==
    LET l == local[w]
        r == create_order(l.items)
        oid == nextId.order
    IN /\ pc[w] = "co_create"
       /\ IF r.err # ""
          THEN /\ Finish(w, Reply("checkout", l.user, 0, 400, r.err))
               /\ UNCHANGED <<orders, orderItems, nextId>>
          ELSE /\ orders' = orders \cup
                    {[id |-> oid, user_id |-> l.user,
                      order_number |-> l.order_number,
                      total_amount |-> r.total_amount,
                      status |-> "pending",
                      payment_method |-> l.payment_method,
                      payment_status |-> "pending",
                      shipping_address |-> l.shipping_address]}
               /\ orderItems' = orderItems \cup
                    {[order_id |-> oid, line |-> i,
                      book_id |-> r.order_items_data[i].book_id,
                      book_title |-> r.order_items_data[i].book_title,
                      book_author |-> r.order_items_data[i].book_author,
                      quantity |-> r.order_items_data[i].quantity,
                      price |-> r.order_items_data[i].price,
                      subtotal |-> r.order_items_data[i].subtotal]
                     : i \in 1..Len(r.order_items_data)}
               /\ nextId' = [nextId EXCEPT !.order = @ + 1]
               /\ Goto(w, "co_pay",
                       [l EXCEPT !.order_id = oid, !.total = r.total_amount,
                                 !.status = "pending"])
       /\ UNCHANGED <<books, files, flask, carts, cartItems, purchases, paymentLog,
                      started, catalogChanges>>

\* step 3: the payment gateway call
CheckoutPayment(w) ==
    LET l == local[w]
    IN /\ pc[w] = "co_pay"
       /\ paymentLog' = Append(paymentLog, l.order_id)
       /\ Goto(w, "co_update", [l EXCEPT !.pay = process_dummy_payment(l.card)])
       /\ UNCHANGED <<books, files, flask, carts, cartItems, orders, orderItems,
                      purchases, nextId, started, catalogChanges>>

\* step 4: OrderDAO.update_payment_status; a failed payment returns here
CheckoutUpdateStatus(w) ==
    LET l == local[w]
    IN /\ pc[w] = "co_update"
       /\ orders' = update_payment_status(l.order_id, l.pay)
       /\ IF l.pay = "completed"
          THEN Goto(w, "co_clear", l)
          ELSE Finish(w, OrderResponse(l, l.pay))
       /\ UNCHANGED <<books, files, flask, carts, cartItems, orderItems, purchases,
                      paymentLog, nextId, started, catalogChanges>>

\* step 5: CartDAO.clear_cart after a completed payment, then the response
CheckoutClearCart(w) ==
    LET l == local[w]
    IN /\ pc[w] = "co_clear"
       /\ cartItems' = clear_cart(l.user)
       /\ Finish(w, OrderResponse(l, l.pay))
       /\ UNCHANGED <<books, files, flask, carts, orders, orderItems, purchases,
                      paymentLog, nextId, started, catalogChanges>>

\* a session of the checkout raises (the store is unreachable, the
\* statement fails): get_session rolls that session back and the route
\* answers 500; what the earlier sessions of the request committed stays
CheckoutStorageFailure(w) ==
    LET l == local[w]
    IN /\ pc[w] \in {"co_create", "co_update", "co_clear"}
       /\ \E e \in Exceptions :
            Finish(w, [Reply("checkout", l.user, 0, 500,
                             "Checkout failed. Please try again.")
                         EXCEPT !.raised = e])
       /\ UNCHANGED <<books, files, flask, carts, cartItems, orders, orderItems,
                      purchases, paymentLog, nextId, started, catalogChanges>>

----------------------------------------------------------------------------
\* Order retrieval: routes/checkout.py get_order over OrderDAO

\* an order lookup by number alone
get_order_by_number_any_user(order_number, u) ==
    First({o \in orders : o.order_number = order_number})

\* OrderDAO.get_order_by_number: the order row, None when the number is
\* unknown or the order is another subject's
get_order_by_number(order_number, u) ==
    First({o \in orders : o.order_number = order_number /\ o.user_id = u})

\* the items list of OrderDAO.get_order_by_number
order_items_of(order_id) ==
    LET rows == {oi \in orderItems : oi.order_id = order_id}
    IN [i \in 1..Cardinality(rows) |->
          LET item == CHOOSE oi \in rows : oi.line = i
          IN [book_id |-> item.book_id, quantity |-> item.quantity,
              price |-> item.price, subtotal |-> item.subtotal]]

\* GET /checkout/orders/{order_number}
GetOrder(w) ==
    \E u \in Users, n \in OrderNumbersAsked :
        LET found == get_order_by_number(n, u)
        IN /\ Accept(w)
           /\ started' = started + 1
           /\ IF found = {}
              THEN Finish(w, [Reply("get_order", u, 0, 404, "Order not found")
                                EXCEPT !.asked = n])
              ELSE LET order == CHOOSE o \in found : TRUE
                   IN Finish(w, [Reply("get_order", u, 0, 200, "") EXCEPT
                                   !.asked = n,
                                   !.order_id = order.id,
                                   !.order_number = order.order_number,
                                   !.total = order.total_amount,
                                   !.status = order.status,
                                   !.payment_status = order.payment_status,
                                   !.items = order_items_of(order.id)])
           /\ UNCHANGED <<books, files, flask, carts, cartItems, orders, orderItems,
                          purchases, paymentLog, nextId, catalogChanges>>

\* limits asked of GET /checkout/orders
OrderLimitsAsked == {0, 1, 50, 101}

\* get_user_orders route: limit: int = Query(50, ge=1, le=100)
OrdersRequest(limit) == limit >= 1 /\ limit <= 100

\* rows in descending order of created_at; orders are created in the order
\* of their ids
RECURSIVE NewestFirst(_)
NewestFirst(rows) ==
    IF rows = {} THEN <<>>
    ELSE LET r == CHOOSE x \in rows : \A y \in rows : x.id >= y.id
         IN <<r>> \o NewestFirst(rows \ {r})

\* OrderDAO.get_user_orders: where user_id, order_by created_at desc, limit
get_user_orders(u, limit) ==
    LET rows == NewestFirst({o \in orders : o.user_id = u})
        n == IF Len(rows) < limit THEN Len(rows) ELSE limit
    IN [i \in 1..n |->
           [id |-> rows[i].id, order_number |-> rows[i].order_number,
            total_amount |-> rows[i].total_amount, status |-> rows[i].status,
            payment_status |-> rows[i].payment_status]]

\* GET /checkout/orders
GetUserOrders(w) ==
    \E u \in Users, limit \in OrderLimitsAsked :
        /\ Accept(w)
        /\ started' = started + 1
        /\ IF ~OrdersRequest(limit)
           THEN Finish(w, [Reply("get_user_orders", u, 0, 422,
                                 "validation error")
                             EXCEPT !.asked_limit = limit])
           ELSE LET found == get_user_orders(u, limit)
                IN Finish(w, [Reply("get_user_orders", u, 0, 200, "") EXCEPT
                                !.asked_limit = limit,
                                !.limit = limit,
                                !.items = found,
                                !.total_items = Len(found)])
        /\ UNCHANGED <<books, files, flask, carts, cartItems, orders,
                       orderItems, purchases, paymentLog, nextId,
                       catalogChanges>>

----------------------------------------------------------------------------
\* Purchases (entitlements): dao/book.py, controllers/book.py, routes/books.py

\* select(Purchase).where(auth0_user_id == u, book_id == b)
get_purchase_record(u, b) ==
    First({p \in purchases : p.auth0_user_id = u /\ p.book_id = b})

\* an ownership check that forgets the subject
check_user_owns_book_any_user(u, b) ==
    {p \in purchases : p.book_id = b} # {}

\* check_user_owns_book: purchase is not None
check_user_owns_book(u, b) ==
    First({p \in purchases : p.auth0_user_id = u /\ p.book_id = b}) # {}

\* a purchases table created without the constraint
unique_user_book_purchase_dropped(u, b) == TRUE

\* UniqueConstraint('auth0_user_id', 'book_id'): may a row for (u, b) be
\* inserted into the table
unique_user_book_purchase(u, b) ==
    ~ \E p \in purchases : p.auth0_user_id = u /\ p.book_id = b

\* an insert that replaces the rows the subject already has
add_purchase_replacing(u, b) ==
    {p \in purchases : p.auth0_user_id # u} \cup
        {[id |-> nextId.purchase, auth0_user_id |-> u, book_id |-> b]}

\* session.add(purchase); commit: the purchases table after the insert
add_purchase(u, b) ==
    purchases \cup
        {[id |-> nextId.purchase, auth0_user_id |-> u, book_id |-> b]}

\* POST /books/purchase/{book_id}, step 1: the controller's book lookup and
\* create_purchase's look-before-insert
PurchaseCheck(w) ==
    \E u \in Users, b \in ReqBookIds :
        /\ Accept(w)
        /\ started' = started + 1
        /\ IF b \notin DOMAIN books
           THEN Finish(w, Reply("purchase", u, b, 404, "Book not found."))
           ELSE IF get_purchase_record(u, b) # {}
           THEN Finish(w, Reply("purchase", u, b, 400,
                                "User already owns this book."))
           ELSE Goto(w, "pu_insert",
                     [NoLocal EXCEPT !.op = "purchase", !.user = u, !.book = b])
        /\ UNCHANGED <<books, files, flask, carts, cartItems, orders, orderItems,
                       purchases, paymentLog, nextId, catalogChanges>>

\* step 2: the insert in its own session; a constraint violation is caught
\* by the blanket except of create_purchase
PurchaseInsert(w) ==
    LET l == local[w]
    IN /\ pc[w] = "pu_insert"
       /\ IF unique_user_book_purchase(l.user, l.book)
          THEN /\ purchases' = add_purchase(l.user, l.book)
               /\ nextId' = [nextId EXCEPT !.purchase = @ + 1]
               /\ Finish(w, Reply("purchase", l.user, l.book, 200, "success"))
          ELSE /\ Finish(w, Reply("purchase", l.user, l.book, 500,
                                  "Failed to create purchase."))
               /\ UNCHANGED <<purchases, nextId>>
       /\ UNCHANGED <<books, files, flask, carts, cartItems, orders, orderItems,
                      paymentLog, started, catalogChanges>>

----------------------------------------------------------------------------
\* DRM gate: authorize_book_access / get_secure_book_path / read_book

\* os.path.basename: what follows the last "/"
RECURSIVE basename(_)
basename(path) ==
    IF path = <<>> THEN <<>>
    ELSE IF path[Len(path)] = "/" THEN <<>>
    ELSE Append(basename(SubSeq(path, 1, Len(path) - 1)), path[Len(path)])

\* os.path.join(base_path, filename) for a filename without "/"
join(base_path, filename) == base_path \o <<"/">> \o filename

\* os.path.exists inside and around the private_books directory
exists(full_path) ==
    \/ \E f \in files : full_path = join(BasePath, f)
    \/ full_path \in {join(BasePath, <<>>), join(BasePath, <<".">>),
                      join(BasePath, <<".", ".">>)}

\* GET /books/read/{book_id}, step 1: the ownership check
ReadCheckOwnership(w) ==
    \E u \in Users, b \in ReqBookIds :
        /\ Accept(w)
        /\ started' = started + 1
        /\ IF ~check_user_owns_book(u, b)
           THEN Finish(w, Reply("read", u, b, 403,
                    "Access Denied: Purchase required to access this book."))
           ELSE Goto(w, "rd_path",
                     [NoLocal EXCEPT !.op = "read", !.user = u, !.book = b])
        /\ UNCHANGED <<books, files, flask, carts, cartItems, orders, orderItems,
                       purchases, paymentLog, nextId, catalogChanges>>

\* step 2: get_book_filepath, then the path is rebuilt under base_path
ReadResolvePath(w) ==
    LET l == local[w]
    IN /\ pc[w] = "rd_path"
       /\ IF l.book \notin DOMAIN books
          THEN Finish(w, Reply("read", l.user, l.book, 404, "Book not found."))
          ELSE IF books[l.book].filepath = <<>>
          THEN Finish(w, Reply("read", l.user, l.book, 500,
                               "Book file configuration error."))
          ELSE LET full_path == join(BasePath, basename(books[l.book].filepath))
               IN IF ~exists(full_path)
                  THEN Finish(w, Reply("read", l.user, l.book, 500,
                                       "Book file is missing from server."))
                  ELSE Finish(w, [Reply("read", l.user, l.book, 200, "")
                                     EXCEPT !.path = full_path])
       /\ UNCHANGED <<books, files, flask, carts, cartItems, orders, orderItems,
                      purchases, paymentLog, nextId, started, catalogChanges>>

----------------------------------------------------------------------------
\* The Flask backend: ssdlc-backend/app/routes/books.py purchase_book

\* User.has_purchased_book: a completed purchase of the book by the user
has_purchased_book(u, b) ==
    \E p \in flask.purchases :
        p.user_id = u /\ p.book_id = b /\ p.status = "completed"

\* error_response(f'Purchase failed: {str(e)}', 500): the message is the
\* fixed prefix followed by the text of the exception
purchase_failed(e) == [message |-> "Purchase failed: ", leak |-> e]

\* POST /api/books/purchase, the reads: user, book, existing purchase
FlaskPurchaseCheck(w) ==
    \E u \in Users, b \in ReqBookIds :
        /\ Accept(w)
        /\ started' = started + 1
        /\ IF u \in flask.inactive
           THEN Finish(w, Reply("purchase_book", u, b, 404,
                                "User not found or inactive"))
           ELSE IF b \notin BookIds
           THEN Finish(w, Reply("purchase_book", u, b, 404, "Book not found"))
           ELSE IF has_purchased_book(u, b)
           THEN Finish(w, Reply("purchase_book", u, b, 409,
                                "You already own this book"))
           ELSE Goto(w, "fp_commit",
                     [NoLocal EXCEPT !.op = "purchase_book", !.user = u,
                                     !.book = b])
        /\ UNCHANGED <<books, files, flask, carts, cartItems, orders,
                       orderItems, purchases, paymentLog, nextId,
                       catalogChanges>>

\* the purchase row is added, completed and committed
FlaskPurchaseCommit(w) ==
    LET l == local[w]
    IN /\ pc[w] = "fp_commit"
       /\ flask' = [flask EXCEPT
                      !.purchases = @ \cup
                          {[id |-> flask.next_id, user_id |-> l.user,
                            book_id |-> l.book, status |-> "completed",
                            download_count |-> 0, granted |-> 0]},
                      !.next_id = @ + 1]
       /\ Finish(w, Reply("purchase_book", l.user, l.book, 201,
                          "Book purchased successfully"))
       /\ UNCHANGED <<books, files, carts, cartItems, orders, orderItems,
                      purchases, paymentLog, nextId, started, catalogChanges>>

\* the store raises under the handler: rollback, and the 500 of the
\* except branch
FlaskPurchaseException(w) ==
    LET l == local[w]
    IN /\ pc[w] = "fp_commit"
       /\ \E e \in Exceptions :
            Finish(w, [Reply("purchase_book", l.user, l.book, 500,
                             purchase_failed(e).message)
                         EXCEPT !.raised = e, !.leak = purchase_failed(e).leak])
       /\ UNCHANGED <<books, files, flask, carts, cartItems, orders,
                      orderItems, purchases, paymentLog, nextId, started,
                      catalogChanges>>

\* Purchase.max_downloads, default 5
max_downloads == 5

\* the requests the Flask backend takes while downloads are followed
MaxFlaskRequests == 6

FlaskAccept(w) ==
    /\ pc[w] = "idle"
    /\ \A v \in Workers : v < w => pc[v] # "idle"
    /\ started < MaxFlaskRequests

\* Purchase.query.filter_by(user_id, book_id, status='completed').first()
completed_purchase(u, b) ==
    First({p \in flask.purchases :
             p.user_id = u /\ p.book_id = b /\ p.status = "completed"})

\* Purchase.can_download on the attributes the request has loaded
can_download(status, download_count) ==
    status = "completed" /\ download_count < max_downloads

\* GET /api/books/<book_id>/download, the reads: user, book, purchase,
\* device, and can_download on the row that was loaded
FlaskDownloadCheck(w) ==
    \E u \in Users, b \in ReqBookIds :
        LET found == completed_purchase(u, b)
            purchase == CHOOSE p \in found : TRUE
            reply(code, detail) == Reply("download_book", u, b, code, detail)
        IN /\ FlaskAccept(w)
           /\ started' = started + 1
           /\ IF u \in flask.inactive
              THEN Finish(w, reply(404, "User not found or inactive"))
              ELSE IF b \notin BookIds
              THEN Finish(w, reply(404, "Book not found"))
              ELSE IF found = {}
              THEN Finish(w, reply(403, "You have not purchased this book"))
              ELSE IF u \notin flask.devices
              THEN Finish(w, reply(403,
                          "Please register a device to download books"))
              ELSE IF ~can_download(purchase.status, purchase.download_count)
              THEN Finish(w, [reply(403,
                               "Download limit exceeded for this book")
                                EXCEPT !.purchase_id = purchase.id])
              ELSE Goto(w, "fd_increment",
                        [NoLocal EXCEPT
                           !.op = "download_book", !.user = u, !.book = b,
                           !.purchase_id = purchase.id,
                           !.status = purchase.status,
                           !.download_count = purchase.download_count])
           /\ UNCHANGED <<books, files, flask, carts, cartItems, orders,
                          orderItems, purchases, paymentLog, nextId,
                          catalogChanges>>

\* increment_download_count on the loaded row: the count that was read,
\* plus one, is written and committed, and the download URL is returned;
\* granted counts the URLs returned for the purchase
FlaskDownloadIncrement(w) ==
    LET l == local[w]
    IN /\ pc[w] = "fd_increment"
       /\ flask' = [flask EXCEPT
                      !.purchases =
                         {IF p.id = l.purchase_id
                          THEN [p EXCEPT
                                  !.download_count =
                                     IF can_download(l.status,
                                                     l.download_count)
                                     THEN l.download_count + 1 ELSE @,
                                  !.granted = @ + 1]
                          ELSE p : p \in flask.purchases}]
       /\ Finish(w, [Reply("download_book", l.user, l.book, 200,
                           "Download URL generated successfully")
                       EXCEPT !.purchase_id = l.purchase_id])
       /\ UNCHANGED <<books, files, carts, cartItems, orders, orderItems,
                      purchases, paymentLog, nextId, started, catalogChanges>>

\* DELETE /api/users/register-device
FlaskUnregisterDevice(w) ==
    \E u \in Users :
        /\ Accept(w)
        /\ started' = started + 1
        /\ IF u \in flask.inactive
           THEN /\ Finish(w, Reply("unregister_device", u, 0, 404,
                                  "User not found or inactive"))
                /\ UNCHANGED flask
           ELSE IF u \notin flask.devices
           THEN /\ Finish(w, Reply("unregister_device", u, 0, 400,
                                  "No device is currently registered"))
                /\ UNCHANGED flask
           ELSE /\ flask' = [flask EXCEPT !.devices = @ \ {u}]
                /\ Finish(w, Reply("unregister_device", u, 0, 200,
                                  "Device unregistered successfully"))
        /\ UNCHANGED <<books, files, carts, cartItems, orders, orderItems,
                       purchases, paymentLog, nextId, catalogChanges>>

\* DELETE /api/users/account: the soft delete
FlaskDeleteAccount(w) ==
    \E u \in Users :
        /\ Accept(w)
        /\ started' = started + 1
        /\ IF u \in flask.inactive
           THEN /\ Finish(w, Reply("delete_account", u, 0, 404,
                                  "User not found or inactive"))
                /\ UNCHANGED flask
           ELSE /\ flask' = [flask EXCEPT !.inactive = @ \cup {u}]
                /\ Finish(w, Reply("delete_account", u, 0, 200,
                                  "Account deleted successfully"))
        /\ UNCHANGED <<books, files, carts, cartItems, orders, orderItems,
                       purchases, paymentLog, nextId, catalogChanges>>

----------------------------------------------------------------------------
\* Search input: dao/book_search.py BookSearchDAO.validate_and_sanitize_query
\* A query is a sequence of characters, each a one-character string; TAB,
\* NUL, BSL (backslash) and EACUTE (a letter outside ASCII) are spelled out.

MAX_SEARCH_QUERY_LENGTH == 255

MaxQueryLen == 3

LowerCase ==
    <<"a", "b", "c", "d", "e", "f", "g", "h", "i", "j", "k", "l", "m", "n",
      "o", "p", "q", "r", "s", "t", "u", "v", "w", "x", "y", "z">>

UpperCase ==
    <<"A", "B", "C", "D", "E", "F", "G", "H", "I", "J", "K", "L", "M", "N",
      "O", "P", "Q", "R", "S", "T", "U", "V", "W", "X", "Y", "Z">>

Range(f) == {f[i] : i \in DOMAIN f}

Letters == Range(LowerCase) \cup Range(UpperCase)

Digits == {"0", "1", "2", "3", "4", "5", "6", "7", "8", "9"}

\* what str.strip() removes and what \s matches
WhiteChars == {" ", "TAB", "LF", "CR", "VT", "FF"}

\* the characters the enumerated queries are built from
QueryChars ==
    {"a", "x", "p", "Z", "0", "7", " ", "TAB",
     "-", "&", ".", ",", "'", "\"", ":", "?", "!",
     "/", "*", ";", "_", "<", "NUL", "BSL", "EACUTE"}

Repeat(c, n) == [i \in 1..n |-> c]

SeqsUpTo(S, n) == UNION {[1..k -> S] : k \in 0..n}

QueryDropTable ==
    <<"'", ";", " ", "D", "R", "O", "P", " ", "T", "A", "B", "L", "E", " ",
    "b", "o", "o", "k", "s", ";", " ", "-", "-">>

QueryOrOne ==
    <<"1", "'", " ", "O", "R", " ", "'", "1", "'", "=", "'", "1">>

QueryScript ==
    <<"<", "s", "c", "r", "i", "p", "t", ">", "a", "l", "e", "r", "t", "(",
    "'", "x", "s", "s", "'", ")", "<", "/", "s", "c", "r", "i", "p", "t",
    ">">>

QueryBlank ==
    <<" ", " ", " ">>

QueryGatsby ==
    <<"T", "h", "e", " ", "G", "r", "e", "a", "t", " ", "G", "a", "t", "s",
    "b", "y">>

QueryOBrien ==
    <<"O", "'", "B", "r", "i", "e", "n", "'", "s", " ", "b", "o", "o", "k",
    "s">>

QuerySciFi ==
    <<"s", "c", "i", "-", "f", "i", " ", "&", " ", "f", "a", "n", "t", "a",
    "s", "y">>

QueryPadded ==
    <<" ", " ", "G", "e", "o", "r", "g", "e", " ", "O", "r", "w", "e", "l",
    "l", " ", "TAB">>

\* the queries validated: every short one, the quoted ones, and the ones
\* around the length limit
Queries ==
    SeqsUpTo(QueryChars, MaxQueryLen) \cup
    {QueryDropTable, QueryOrOne, QueryScript, QueryBlank, QueryGatsby,
     QueryOBrien, QuerySciFi, QueryPadded,
     <<"x", "P", "_", "a">>, <<"BSL", "x", "0", "0">>,
     Repeat("a", MAX_SEARCH_QUERY_LENGTH),
     Repeat("a", MAX_SEARCH_QUERY_LENGTH + 1),
     <<" ">> \o Repeat("a", MAX_SEARCH_QUERY_LENGTH) \o <<" ">>,
     <<" ">> \o Repeat("a", MAX_SEARCH_QUERY_LENGTH + 1)}

\* str.lower(), character by character
lower(query) ==
    [i \in DOMAIN query |->
        IF query[i] \in Range(UpperCase)
        THEN LowerCase[CHOOSE k \in DOMAIN UpperCase : UpperCase[k] = query[i]]
        ELSE query[i]]

\* a strip() that removes leading whitespace only
RECURSIVE strip_leading_only(_)
strip_leading_only(query) ==
    IF query # <<>> /\ Head(query) \in WhiteChars
    THEN strip_leading_only(Tail(query))
    ELSE query

\* str.strip(): leading and trailing whitespace removed
RECURSIVE strip(_)
strip(query) ==
    IF query = <<>> THEN query
    ELSE IF Head(query) \in WhiteChars THEN strip(Tail(query))
    ELSE IF query[Len(query)] \in WhiteChars
    THEN strip(SubSeq(query, 1, Len(query) - 1))
    ELSE query

\* pattern in query
contains(query, pattern) ==
    \E i \in 1..(Len(query) - Len(pattern) + 1) :
        SubSeq(query, i, i + Len(pattern) - 1) = pattern

\* ['--', '/*', '*/', 'xp_', 'sp_', ';', '\\x00']: the last one is the four
\* characters backslash, x, 0, 0
dangerous_patterns ==
    {<<"-", "-">>, <<"/", "*">>, <<"*", "/">>, <<"x", "p", "_">>,
     <<"s", "p", "_">>, <<";">>, <<"BSL", "x", "0", "0">>}

\* a pattern check that finds nothing
any_dangerous_pattern_none(query) == FALSE

\* any(pattern in query.lower() for pattern in dangerous_patterns)
any_dangerous_pattern(query) ==
    \E pattern \in dangerous_patterns : contains(lower(query), pattern)

\* re.match(r'^[a-zA-Z0-9\s\-&.,\'":?!]+$', query) on a stripped query
re_match(query) ==
    /\ query # <<>>
    /\ \A i \in DOMAIN query :
          query[i] \in Letters \cup Digits \cup WhiteChars \cup
                       {"-", "&", ".", ",", "'", "\"", ":", "?", "!"}

\* validate_and_sanitize_query: the ValueError raised, or "" and the query
\* returned
validate_and_sanitize_query(query) ==
    IF query = <<>> \/ Len(strip(query)) = 0
    THEN [err |-> "Search query cannot be empty", query |-> <<>>]
    ELSE LET stripped == strip(query)
         IN IF Len(stripped) > MAX_SEARCH_QUERY_LENGTH
            THEN [err |-> "Search query exceeds 255 characters",
                  query |-> <<>>]
            ELSE IF any_dangerous_pattern(stripped)
            THEN [err |-> "Invalid characters in search query",
                  query |-> <<>>]
            ELSE IF ~re_match(stripped)
            THEN [err |-> "Search contains invalid characters",
                  query |-> <<>>]
            ELSE [err |-> "", query |-> stripped]

\* a worker calls validate_and_sanitize_query with the query it holds
ValidateQuery(w) ==
    LET l == local[w]
        r == validate_and_sanitize_query(l.query)
    IN /\ pc[w] = "validate_query"
       /\ Finish(w, [Reply("validate_query", "", 0, 0, r.err) EXCEPT
                       !.status = IF r.err = "" THEN "returned"
                                  ELSE "ValueError",
                       !.query = l.query,
                       !.clean = r.query])
       /\ UNCHANGED <<books, files, flask, carts, cartItems, orders, orderItems,
                      purchases, paymentLog, nextId, started, catalogChanges>>

----------------------------------------------------------------------------
\* GET /search/books: routes/search.py search_books over
\* BookSearchDAO.search_books

MAX_RESULTS == 100

DEFAULT_LIMIT == 20

valid_sorts == {"relevance", "price_asc", "price_desc", "rating"}

SearchQueries ==
    {<<"a">>, <<>>, QueryDropTable, QueryGatsby, <<"d", "U", "n">>,
     <<" ", "e">>}

LimitsAsked == {0, 1, 100, 101}

OffsetsAsked == {0 - 1, 0, 5}

SortsAsked == valid_sorts \cup {"title"}
\* an optional price filter that is not given
NoPrice == 0 - 1
MinPricesAsked == {NoPrice, 3}
MaxPricesAsked == {NoPrice, 2, 3}
CategoriesAsked == {"", "scifi"}

\* the columns of books that no handler modelled here writes, and the rows
\* of book_categories
DescriptionOf == [b \in BookIds |-> IF b = 1 THEN "sand" ELSE ""]
RatingOf == [b \in BookIds |-> IF b = 1 THEN 4 ELSE 4]
CategoryOf == [b \in BookIds |-> IF b = 1 THEN "scifi" ELSE "classic"]

\* the characters of the strings stored in the catalog
text(string) ==
    CASE string = "Dune" -> <<"D", "u", "n", "e">>
      [] string = "Emma" -> <<"E", "m", "m", "a">>
      [] string = "Dune (2nd ed.)" ->
            <<"D", "u", "n", "e", " ", "(", "2", "n", "d", " ", "e", "d",
              ".", ")">>
      [] string = "Herbert" -> <<"H", "e", "r", "b", "e", "r", "t">>
      [] string = "Austen" -> <<"A", "u", "s", "t", "e", "n">>
      [] string = "sand" -> <<"s", "a", "n", "d">>
      [] OTHER -> <<>>

\* column.ilike(f"%{query}%") for a query without % and _
ilike(column, query) == contains(lower(text(column)), lower(query))

\* the or_ of the three ilike conditions
text_match(b, query) ==
    \/ ilike(books[b].title, query)
    \/ ilike(books[b].author, query)
    \/ ilike(DescriptionOf[b], query)

\* the rows search_query selects before ordering and paging
search_rows(query, category, min_price, max_price) ==
    {b \in DOMAIN books :
        /\ books[b].is_available /\ text_match(b, query)
        /\ min_price # NoPrice => books[b].price >= min_price
        /\ max_price # NoPrice => books[b].price <= max_price
        /\ category # "" => CategoryOf[b] = category}

\* count_query: select count() from books where available and text match
count_query(query, category, min_price, max_price) ==
    Cardinality({b \in DOMAIN books :
                    books[b].is_available /\ text_match(b, query)})

\* does a come before b, or level with it, under order_by
ordered(a, b, sort_by) ==
    IF sort_by = "price_asc" THEN books[a].price <= books[b].price
    ELSE IF sort_by = "price_desc" THEN books[a].price >= books[b].price
    ELSE RatingOf[a] >= RatingOf[b]

\* the orders in which the store may return rows under order_by: rows
\* level on the sort key come in any order
orderings(rows, sort_by) ==
    {f \in [1..Cardinality(rows) -> rows] :
        /\ \A i, j \in DOMAIN f : i # j => f[i] # f[j]
        /\ \A i, j \in DOMAIN f : i < j => ordered(f[i], f[j], sort_by)}

\* .limit(limit).offset(offset)
page(rows, limit, offset) ==
    IF offset >= Len(rows) THEN <<>>
    ELSE SubSeq(rows, offset + 1,
                IF offset + limit > Len(rows) THEN Len(rows)
                ELSE offset + limit)

\* the Query(...) declarations of the route: q of 1 to 255 characters,
\* limit ge 1 and le 100, offset ge 0, sort_by matching the pattern
SearchRequest(q, limit, offset, sort_by) ==
    /\ Len(q) >= 1 /\ Len(q) <= 255
    /\ limit >= 1 /\ limit <= 100
    /\ offset >= 0
    /\ sort_by \in {"relevance", "price_asc", "price_desc", "rating"}

\* the paging and the ordering BookSearchDAO.search_books goes on with
search_paging(limit, offset, sort_by) ==
    [limit |-> IF limit < 1 \/ limit > MAX_RESULTS THEN DEFAULT_LIMIT
               ELSE limit,
     offset |-> IF offset < 0 THEN 0 ELSE offset,
     sort_by |-> IF sort_by \notin valid_sorts THEN "relevance" ELSE sort_by]

SearchBooks(w) ==
    LET l == local[w]
        q == l.query
        asked == [Reply("search_books", "", 0, 0, "") EXCEPT
                    !.query = q, !.asked_limit = l.limit,
                    !.asked_offset = l.offset, !.asked_sort = l.sort_by,
                    !.category = l.category, !.min_price = l.min_price,
                    !.max_price = l.max_price]
        r == validate_and_sanitize_query(q)
        paging == search_paging(l.limit, l.offset, l.sort_by)
        rows == search_rows(r.query, l.category, l.min_price, l.max_price)
        total_count == count_query(r.query, l.category, l.min_price,
                                   l.max_price)
    IN /\ pc[w] = "search_books"
       /\ IF ~SearchRequest(q, l.limit, l.offset, l.sort_by)
          THEN Finish(w, [asked EXCEPT !.code = 422,
                                       !.detail = "validation"])
          ELSE IF l.min_price # NoPrice /\ l.max_price # NoPrice /\
                  l.min_price > l.max_price
          THEN Finish(w, [asked EXCEPT
                            !.code = 400,
                            !.detail = "min_price cannot be greater than max_price"])
          ELSE IF r.err # ""
          THEN Finish(w, [asked EXCEPT !.code = 400, !.detail = r.err])
          ELSE \E found \in orderings(rows, paging.sort_by) :
                 Finish(w, [asked EXCEPT
                              !.code = 200, !.clean = r.query,
                              !.limit = paging.limit,
                              !.offset = paging.offset,
                              !.sort_by = paging.sort_by,
                              !.items = page(found, paging.limit,
                                             paging.offset),
                              !.total = total_count,
                              !.has_more =
                                 (paging.offset + paging.limit)
                                     < total_count])
       /\ UNCHANGED <<books, files, flask, carts, cartItems, orders,
                      orderItems, purchases, paymentLog, nextId, started,
                      catalogChanges>>

----------------------------------------------------------------------------
\* The catalog is edited by an administrative collaborator

CatalogChange ==
    \E b \in BookIds, p \in Prices, a \in BOOLEAN :
        /\ catalogChanges < MaxCatalogChanges
        /\ <<p, a>> # <<books[b].price, books[b].is_available>>
        /\ books' = [books EXCEPT ![b].price = p, ![b].is_available = a]
        /\ catalogChanges' = catalogChanges + 1
        /\ resp' = NoResp
        /\ UNCHANGED <<files, flask, carts, cartItems, orders, orderItems, purchases,
                       paymentLog, nextId, pc, local, started>>

\* the administrative collaborator withdraws a book from the catalog; the
\* cart lines that name it stay
CatalogRemove ==
    \E b \in DOMAIN books :
        /\ catalogChanges < MaxCatalogChanges
        /\ books' = [c \in DOMAIN books \ {b} |-> books[c]]
        /\ catalogChanges' = catalogChanges + 1
        /\ resp' = NoResp
        /\ UNCHANGED <<files, flask, carts, cartItems, orders, orderItems, purchases,
                       paymentLog, nextId, pc, local, started>>

----------------------------------------------------------------------------
\* the store when the service starts
InitStore ==
    /\ books = [b \in BookIds |->
                 [price |-> 2, is_available |-> TRUE,
                  title |-> TitleOf[b], author |-> AuthorOf[b],
                  filepath |-> IF b = 1 THEN <<"1">>
                               ELSE <<".", ".", "/", "2">>]]
    /\ files = {<<"1">>}
    /\ flask = [purchases |-> {}, next_id |-> 1, devices |-> Users,
                inactive |-> {}]
    /\ carts = {}
    /\ cartItems = {}
    /\ orders = {}
    /\ orderItems = {}
    /\ purchases = {}
    /\ paymentLog = <<>>
    /\ nextId = [cart |-> 1, item |-> 1, order |-> 1, order_number |-> 1,
                 purchase |-> 1]

Init ==
    /\ InitStore
    /\ pc = [w \in Workers |-> "idle"]
    /\ local = [w \in Workers |-> NoLocal]
    /\ resp = NoResp
    /\ started = 0
    /\ catalogChanges = 0

Next ==
    \/ \E w \in Workers : AddToCart(w)
    \/ \E w \in Workers : ClearCart(w)
    \/ \E w \in Workers : CheckoutGetCart(w)
    \/ \E w \in Workers : CheckoutCreateOrder(w)
    \/ \E w \in Workers : CheckoutPayment(w)
    \/ \E w \in Workers : CheckoutUpdateStatus(w)
    \/ \E w \in Workers : CheckoutClearCart(w)
    \/ \E w \in Workers : PurchaseCheck(w)
    \/ \E w \in Workers : PurchaseInsert(w)
    \/ \E w \in Workers : ReadCheckOwnership(w)
    \/ \E w \in Workers : ReadResolvePath(w)
    \/ CatalogChange

Spec == Init /\ [][Next]_vars

\* the cart and checkout pipeline on its own
NextCheckout ==
    \/ \E w \in Workers : AddToCart(w)
    \/ \E w \in Workers : ClearCart(w)
    \/ \E w \in Workers : CheckoutGetCart(w)
    \/ \E w \in Workers : CheckoutCreateOrder(w)
    \/ \E w \in Workers : CheckoutPayment(w)
    \/ \E w \in Workers : CheckoutUpdateStatus(w)
    \/ \E w \in Workers : CheckoutClearCart(w)
    \/ CatalogChange

SpecCheckout == Init /\ [][NextCheckout]_vars

\* the cart and checkout pipeline over a catalog that also loses books
NextCatalog ==
    \/ \E w \in Workers : AddToCart(w)
    \/ \E w \in Workers : CheckoutGetCart(w)
    \/ \E w \in Workers : CheckoutCreateOrder(w)
    \/ \E w \in Workers : CheckoutPayment(w)
    \/ \E w \in Workers : CheckoutUpdateStatus(w)
    \/ \E w \in Workers : CheckoutClearCart(w)
    \/ CatalogChange
    \/ CatalogRemove

SpecCatalog == Init /\ [][NextCatalog]_vars

\* the stored file references the DRM gate is run on: every short one over
\* a file name character, the dot and the separator, and the quoted payload
MaxPathLen == 4

StoredPaths ==
    SeqsUpTo({"1", ".", "/"}, MaxPathLen) \cup
    {<<".", ".", "/", ".", ".", "/", "e", "t", "c", "/",
       "p", "a", "s", "s", "w", "d">>}

\* the purchase records and the DRM gate over any stored reference of book 1
InitPaths ==
    /\ \E path \in StoredPaths :
          books = [b \in BookIds |->
                     [price |-> 2, is_available |-> TRUE,
                      title |-> TitleOf[b], author |-> AuthorOf[b],
                      filepath |-> IF b = 1 THEN path ELSE <<"1">>]]
    /\ files = {<<"1">>}
    /\ flask = [purchases |-> {}, next_id |-> 1, devices |-> Users,
                inactive |-> {}]
    /\ carts = {}
    /\ cartItems = {}
    /\ orders = {}
    /\ orderItems = {}
    /\ purchases = {}
    /\ paymentLog = <<>>
    /\ nextId = [cart |-> 1, item |-> 1, order |-> 1, order_number |-> 1,
                 purchase |-> 1]
    /\ pc = [w \in Workers |-> "idle"]
    /\ local = [w \in Workers |-> NoLocal]
    /\ resp = NoResp
    /\ started = 0
    /\ catalogChanges = 0

NextPaths ==
    \/ \E w \in Workers : PurchaseCheck(w)
    \/ \E w \in Workers : PurchaseInsert(w)
    \/ \E w \in Workers : ReadCheckOwnership(w)
    \/ \E w \in Workers : ReadResolvePath(w)

SpecPaths == InitPaths /\ [][NextPaths]_vars

\* the search input validation applied to one query
InitValidate ==
    /\ InitStore
    /\ pc = [w \in Workers |-> IF w = 1 THEN "validate_query" ELSE "idle"]
    /\ \E query \in Queries :
          local = [w \in Workers |->
                     IF w = 1 THEN [NoLocal EXCEPT !.op = "validate_query",
                                                   !.query = query]
                     ELSE NoLocal]
    /\ resp = NoResp
    /\ started = 1
    /\ catalogChanges = 0

NextValidate == \E w \in Workers : ValidateQuery(w)

SpecValidate == InitValidate /\ [][NextValidate]_vars

\* the handlers whose except branches answer for an exception of the store
NextErrors ==
    \/ \E w \in Workers : AddToCart(w)
    \/ \E w \in Workers : CheckoutGetCart(w)
    \/ \E w \in Workers : CheckoutCreateOrder(w)
    \/ \E w \in Workers : CheckoutPayment(w)
    \/ \E w \in Workers : CheckoutUpdateStatus(w)
    \/ \E w \in Workers : CheckoutClearCart(w)
    \/ \E w \in Workers : CheckoutStorageFailure(w)
    \/ \E w \in Workers : FlaskPurchaseCheck(w)
    \/ \E w \in Workers : FlaskPurchaseCommit(w)
    \/ \E w \in Workers : FlaskPurchaseException(w)

SpecErrors == Init /\ [][NextErrors]_vars

\* a worker holds a search request: the query string and the parameters
InitSearch ==
    /\ InitStore
    /\ pc = [w \in Workers |-> IF w = 1 THEN "search_books" ELSE "idle"]
    /\ \E q \in SearchQueries, limit \in LimitsAsked,
          offset \in OffsetsAsked, sort_by \in SortsAsked,
          category \in CategoriesAsked, min_price \in MinPricesAsked,
          max_price \in MaxPricesAsked :
          local = [w \in Workers |->
                     IF w = 1
                     THEN [NoLocal EXCEPT
                             !.op = "search_books", !.query = q,
                             !.limit = limit, !.offset = offset,
                             !.sort_by = sort_by, !.category = category,
                             !.min_price = min_price,
                             !.max_price = max_price]
                     ELSE NoLocal]
    /\ resp = NoResp
    /\ started = 1
    /\ catalogChanges = 0

\* the search route on its own
NextSearch ==
    \/ \E w \in Workers : SearchBooks(w)
    \/ CatalogChange

SpecSearch == InitSearch /\ [][NextSearch]_vars

\* the checkout pipeline over a store whose sessions can fail
NextFaults ==
    \/ \E w \in Workers : AddToCart(w)
    \/ \E w \in Workers : CheckoutGetCart(w)
    \/ \E w \in Workers : CheckoutCreateOrder(w)
    \/ \E w \in Workers : CheckoutPayment(w)
    \/ \E w \in Workers : CheckoutUpdateStatus(w)
    \/ \E w \in Workers : CheckoutClearCart(w)
    \/ \E w \in Workers : CheckoutStorageFailure(w)

SpecFaults == Init /\ [][NextFaults]_vars

\* checkout together with order retrieval
NextOrders ==
    \/ \E w \in Workers : AddToCart(w)
    \/ \E w \in Workers : CheckoutGetCart(w)
    \/ \E w \in Workers : CheckoutCreateOrder(w)
    \/ \E w \in Workers : CheckoutPayment(w)
    \/ \E w \in Workers : CheckoutUpdateStatus(w)
    \/ \E w \in Workers : CheckoutClearCart(w)
    \/ \E w \in Workers : GetOrder(w)

SpecOrders == Init /\ [][NextOrders]_vars

\* an administrative collaborator gives a catalog item another title
CatalogRetitle ==
    \E b \in DOMAIN books, t \in Titles :
        /\ catalogChanges < MaxCatalogChanges
        /\ t # books[b].title
        /\ books' = [books EXCEPT ![b].title = t]
        /\ catalogChanges' = catalogChanges + 1
        /\ resp' = NoResp
        /\ UNCHANGED <<files, flask, carts, cartItems, orders, orderItems,
                       purchases, paymentLog, nextId, pc, local, started>>

\* checkout while prices, availability and titles of the catalog change
NextSnapshot ==
    \/ \E w \in Workers : AddToCart(w)
    \/ \E w \in Workers : CheckoutGetCart(w)
    \/ \E w \in Workers : CheckoutCreateOrder(w)
    \/ \E w \in Workers : CheckoutPayment(w)
    \/ \E w \in Workers : CheckoutUpdateStatus(w)
    \/ \E w \in Workers : CheckoutClearCart(w)
    \/ CatalogChange
    \/ CatalogRetitle

SpecSnapshot == Init /\ [][NextSnapshot]_vars

\* checkout whose gateway call returns and whose handler is resumed after
\* each await: the event loop runs a coroutine again once what it awaits
\* has completed
NextLive ==
    \/ \E w \in Workers : AddToCart(w)
    \/ \E w \in Workers : CheckoutGetCart(w)
    \/ \E w \in Workers : CheckoutCreateOrder(w)
    \/ \E w \in Workers : CheckoutPayment(w)
    \/ \E w \in Workers : CheckoutUpdateStatus(w)
    \/ \E w \in Workers : CheckoutClearCart(w)

SpecLive ==
    /\ Init
    /\ [][NextLive]_vars
    /\ \A w \in Workers : WF_vars(CheckoutPayment(w))
    /\ \A w \in Workers : WF_vars(CheckoutUpdateStatus(w))

\* add_to_cart requests of a few units, interleaved
NextIncrements ==
    \/ \E w \in Workers : AddItemReadSmall(w)
    \/ \E w \in Workers : AddItemWrite(w)
    \/ \E w \in Workers : GetCart(w)

SpecIncrements == Init /\ [][NextIncrements]_vars

\* the Flask backend as utils/seed_data.py leaves it: both users have a
\* device registered, the first owns book 1 and the second book 2
InitFlask ==
    /\ books = [b \in BookIds |->
                 [price |-> 2, is_available |-> TRUE,
                  title |-> TitleOf[b], author |-> AuthorOf[b],
                  filepath |-> <<"1">>]]
    /\ files = {<<"1">>}
    /\ flask = [purchases |->
                   {[id |-> 1, user_id |-> "auth0|user1", book_id |-> 1,
                     status |-> "completed", download_count |-> 0,
                     granted |-> 0],
                    [id |-> 2, user_id |-> "auth0|user2", book_id |-> 2,
                     status |-> "completed", download_count |-> 0,
                     granted |-> 0]},
                next_id |-> 3, devices |-> Users, inactive |-> {}]
    /\ carts = {}
    /\ cartItems = {}
    /\ orders = {}
    /\ orderItems = {}
    /\ purchases = {}
    /\ paymentLog = <<>>
    /\ nextId = [cart |-> 1, item |-> 1, order |-> 1, order_number |-> 1,
                 purchase |-> 1]
    /\ pc = [w \in Workers |-> "idle"]
    /\ local = [w \in Workers |-> NoLocal]
    /\ resp = NoResp
    /\ started = 0
    /\ catalogChanges = 0

NextFlask ==
    \/ \E w \in Workers : FlaskPurchaseCheck(w)
    \/ \E w \in Workers : FlaskPurchaseCommit(w)
    \/ \E w \in Workers : FlaskDownloadCheck(w)
    \/ \E w \in Workers : FlaskDownloadIncrement(w)
    \/ \E w \in Workers : FlaskUnregisterDevice(w)
    \/ \E w \in Workers : FlaskDeleteAccount(w)

SpecFlask == InitFlask /\ [][NextFlask]_vars

\* checkout together with the order history
NextHistory ==
    \/ \E w \in Workers : AddToCart(w)
    \/ \E w \in Workers : CheckoutGetCart(w)
    \/ \E w \in Workers : CheckoutCreateOrder(w)
    \/ \E w \in Workers : CheckoutPayment(w)
    \/ \E w \in Workers : CheckoutUpdateStatus(w)
    \/ \E w \in Workers : CheckoutClearCart(w)
    \/ \E w \in Workers : GetUserOrders(w)

SpecHistory == Init /\ [][NextHistory]_vars

\* the cart service: every cart route, with add_to_cart interleaved
NextCart ==
    \/ \E w \in Workers : AddItemRead(w)
    \/ \E w \in Workers : AddItemWrite(w)
    \/ \E w \in Workers : GetCart(w)
    \/ \E w \in Workers : UpdateCartItem(w)
    \/ \E w \in Workers : RemoveFromCart(w)
    \/ \E w \in Workers : ClearCart(w)
    \/ CatalogChange

SpecCart == Init /\ [][NextCart]_vars

\* the purchase records and the DRM gate on their own
NextEntitlement ==
    \/ \E w \in Workers : PurchaseCheck(w)
    \/ \E w \in Workers : PurchaseInsert(w)
    \/ \E w \in Workers : ReadCheckOwnership(w)
    \/ \E w \in Workers : ReadResolvePath(w)

SpecEntitlement == Init /\ [][NextEntitlement]_vars

----------------------------------------------------------------------------
\* Vocabulary of the properties, stated over the tables themselves

Entitled(u, b) ==
    \E p \in purchases : p.auth0_user_id = u /\ p.book_id = b

PurchaseRows(u, b) ==
    {p \in purchases : p.auth0_user_id = u /\ p.book_id = b}

OrderLines(o) == {oi \in orderItems : oi.order_id = o.id}

\* the checkout that created order o has returned
CheckoutFinished(o) == \A w \in Workers : local[w].order_id # o.id

UserLines(u) ==
    {ci \in cartItems : \E c \in carts : c.id = ci.cart_id /\ c.user_id = u}

\* worker w takes its first step of handler op in this step, for subject u
Begins(w, op, first, u) ==
    /\ pc[w] = "idle"
    /\ \/ pc'[w] = first /\ local'[w].user = u
       \/ pc'[w] = "idle" /\ resp'.op = op /\ resp'.worker = w
          /\ resp'.user = u

----------------------------------------------------------------------------
\* C1: in every reachable state a purchase row for (S, B) exists only if
\* some completed order of S contains a line for B.
C1_EntitlementNeedsCompletedOrder ==
    \A p \in purchases :
        \E o \in orders :
            /\ o.user_id = p.auth0_user_id
            /\ o.status = "completed"
            /\ \E oi \in OrderLines(o) : oi.book_id = p.book_id

\* C2: once a checkout whose payment completed has returned, every line of
\* its order has a purchase row for (subject, item).
C2_CompletedOrderGrantsEntitlements ==
    \A o \in orders :
        (o.status = "completed" /\ CheckoutFinished(o))
            => \A oi \in OrderLines(o) : Entitled(o.user_id, oi.book_id)

\* C3: the DRM gate passes its ownership check only when a purchase row for
\* exactly that subject and book exists at that moment; a request of a
\* subject without such a row ends in 403 without a path; and a path is
\* only ever returned to a request that passed the check.
C3_GateRequiresOwnPurchase ==
    [][ /\ \A w \in Workers, u \in Users :
            /\ (Begins(w, "read", "rd_path", u) /\ pc'[w] = "rd_path")
                  => Entitled(u, local'[w].book)
            /\ (Begins(w, "read", "rd_path", u) /\ pc'[w] = "idle"
                  /\ ~Entitled(u, resp'.book))
                  => resp'.code = 403 /\ resp'.path = NoPath
            /\ (Begins(w, "read", "rd_path", u) /\ pc'[w] = "idle")
                  => ~Entitled(u, resp'.book)
        /\ (resp'.op = "read" /\ resp'.path # NoPath)
              => /\ pc[resp'.worker] = "rd_path"
                 /\ local[resp'.worker].user = resp'.user
                 /\ local[resp'.worker].book = resp'.book
                 /\ Entitled(resp'.user, resp'.book)
                 /\ resp'.code = 200
      ]_vars

\* C3 witness: a subject is refused a book that another subject owns
C3_Witness ==
    /\ resp.op = "read" /\ resp.code = 403
    /\ \E p \in purchases : p.book_id = resp.book
                            /\ p.auth0_user_id # resp.user

\* C4: at most one purchase row exists per (auth0_user_id, book_id), and a
\* purchase request finishing while a row for its pair exists fails and
\* adds no row.
C4_OnePurchasePerPair ==
    [][ /\ \A p \in purchases', q \in purchases' :
              (p.auth0_user_id = q.auth0_user_id /\ p.book_id = q.book_id)
                  => p = q
        /\ (resp'.op = "purchase" /\ Entitled(resp'.user, resp'.book))
              => resp'.code # 200 /\ purchases' = purchases
      ]_vars

\* C4 witness: a request that passed the look-before-insert check is turned
\* away at the insert because a concurrent request won
C4_Witness ==
    /\ resp.op = "purchase" /\ resp.code = 500
    /\ Cardinality(PurchaseRows(resp.user, resp.book)) = 1

\* C5: of two concurrent grants for the same pair the one that loses at the
\* insert is answered with 409 Conflict.
C5_RaceLoserGets409 ==
    [][ \A w \in Workers :
            (pc[w] = "pu_insert" /\ pc'[w] = "idle"
                /\ Entitled(local[w].user, local[w].book))
            => resp'.code = 409 /\ purchases' = purchases
      ]_vars

\* C6: after two overlapping checkouts of the same subject on a cart that
\* holds a single item have both completed, exactly one purchase row
\* exists for (subject, item).
C6_OneEntitlementAfterDoubleCheckout ==
    \A o1 \in orders, o2 \in orders :
        ( /\ o1.id # o2.id /\ o1.user_id = o2.user_id
          /\ o1.status = "completed" /\ o2.status = "completed"
          /\ CheckoutFinished(o1) /\ CheckoutFinished(o2)
          /\ Cardinality(OrderLines(o1)) = 1
          /\ {oi.book_id : oi \in OrderLines(o1)}
               = {oi.book_id : oi \in OrderLines(o2)} )
        => \A oi \in OrderLines(o1) :
               Cardinality(PurchaseRows(o1.user_id, oi.book_id)) = 1

\* sum of one numeric column over a set of rows
RECURSIVE SumField(_, _)
SumField(rows, field) ==
    IF rows = {} THEN 0
    ELSE LET r == CHOOSE x \in rows : TRUE
         IN r[field] + SumField(rows \ {r}, field)

\* sum of price_at_addition * quantity over a set of cart lines
RECURSIVE SnapshotTotal(_)
SnapshotTotal(lines) ==
    IF lines = {} THEN 0
    ELSE LET r == CHOOSE x \in lines : TRUE
         IN r.price_at_addition * r.quantity + SnapshotTotal(lines \ {r})

OrderById(id) == CHOOSE o \in orders : o.id = id

\* the card number is sixteen digits of which the last four are zero
Declining(card) ==
    Len(card) = 16 /\ \A i \in 13..16 : card[i] = 0

----------------------------------------------------------------------------
\* C7: the order written by createOrder has one line per cart line read,
\* each priced at the catalog price of that moment times the quantity, and
\* a total that is the sum of these subtotals, whatever the cart snapshot
\* says; the cart's display total is the sum of snapshot price * quantity.
C7_OrderTotalFromCurrentPrices ==
    [][ \A w \in Workers :
          (pc[w] = "co_create" /\ pc'[w] = "co_pay") =>
            LET items == local[w].items
                o == CHOOSE x \in orders' : x.id = local'[w].order_id
                lines == {oi \in orderItems' : oi.order_id = o.id}
            IN /\ o \notin orders
               /\ Cardinality(lines) = Len(items)
               /\ \A i \in 1..Len(items) :
                    \E oi \in lines :
                       /\ oi.line = i
                       /\ oi.book_id = items[i].book_id
                       /\ oi.quantity = items[i].quantity
                       /\ oi.price = books[items[i].book_id].price
                       /\ oi.subtotal
                            = books[items[i].book_id].price * items[i].quantity
               /\ o.total_amount = SumField(lines, "subtotal")
               /\ local'[w].total = o.total_amount
               /\ get_cart(o.user_id).total_amount
                    = SnapshotTotal(UserLines(o.user_id))
      ]_vars

\* C7 witness: an order was written for a line whose price changed after it
\* was put in the cart, so the order total and the display total differ
C7_Witness ==
    \E w \in Workers :
        /\ pc[w] = "co_pay"
        /\ \E i \in 1..Len(local[w].items) :
              local[w].items[i].price # books[local[w].items[i].book_id].price
        /\ local[w].total # SnapshotTotal(UserLines(local[w].user))
        /\ UserLines(local[w].user) # {}

\* C8: when the payment step returned completed the order is stored with
\* status completed and payment_status completed, and at the moment
\* createOrder returns the subject's cart has no lines.
C8_CompletedCheckoutClearsCart ==
    /\ \A w \in Workers :
          pc[w] = "co_clear" =>
             /\ OrderById(local[w].order_id).status = "completed"
             /\ OrderById(local[w].order_id).payment_status = "completed"
    /\ (resp.op = "checkout" /\ resp.payment_status = "completed") =>
          /\ resp.code = 201
          /\ OrderById(resp.order_id).status = "completed"
          /\ OrderById(resp.order_id).payment_status = "completed"
          /\ OrderById(resp.order_id).user_id = resp.user
          /\ UserLines(resp.user) = {}

\* C8 witness: a checkout with a non-declining card has just returned
C8_Witness ==
    /\ resp.op = "checkout" /\ resp.payment_status = "completed"
    /\ OrderLines(OrderById(resp.order_id)) # {}

\* C9: a checkout paid with a card ending in 0000 that got as far as the
\* payment step returns 201 with the order stored as failed/failed; none of
\* its steps changes a cart, a cart line or a purchase row.
C9_DeclinedCheckoutKeepsCart ==
    [][ \A w \in Workers :
          /\ (\E u \in Users : Begins(w, "checkout", "co_create", u))
                => UNCHANGED <<carts, cartItems, purchases>>
          /\ (local[w].op = "checkout" /\ Declining(local[w].card)
                /\ pc'[w] # pc[w])
                => /\ UNCHANGED <<carts, cartItems, purchases>>
                   /\ pc[w] = "co_update" =>
                        /\ pc'[w] = "idle"
                        /\ resp'.op = "checkout" /\ resp'.worker = w
                        /\ resp'.code = 201
                        /\ resp'.order_id = local[w].order_id
                        /\ resp'.payment_status = "failed"
                        /\ \E o \in orders' :
                              /\ o.id = local[w].order_id
                              /\ o.user_id = local[w].user
                              /\ o.status = "failed"
                              /\ o.payment_status = "failed"
      ]_vars

\* C9 witness: a declined checkout has just returned and the cart still
\* holds the lines that were ordered
C9_Witness ==
    /\ resp.op = "checkout" /\ resp.payment_status = "failed"
    /\ UserLines(resp.user) # {}
    /\ OrderById(resp.order_id).status = "failed"

\* C10: a checkout of a subject whose cart has no lines (or who has no
\* cart) is answered with 400 at its first step; that step writes no order
\* and no order line, makes no payment call and leaves the cart empty.
C10_EmptyCartRejected ==
    [][ \A w \in Workers, u \in Users :
          (Begins(w, "checkout", "co_create", u) /\ UserLines(u) = {})
            => /\ pc'[w] = "idle"
               /\ resp'.op = "checkout" /\ resp'.code = 400
               /\ UNCHANGED <<orders, orderItems, paymentLog, carts,
                              cartItems, nextId>>
               /\ {ci \in cartItems' :
                     \E c \in carts' : c.id = ci.cart_id /\ c.user_id = u} = {}
      ]_vars

\* C10 witness: a subject with no lines was refused while another
\* subject's cart holds lines
C10_Witness ==
    /\ resp.op = "checkout" /\ resp.code = 400
    /\ resp.detail = "Cart is empty"
    /\ UserLines(resp.user) = {}
    /\ cartItems # {}

----------------------------------------------------------------------------
\* C11: the status and payment_status in the response of createOrder are
\* those stored for that order when the response is sent, next to its id,
\* its order number and its recomputed total.
C11_ResponseReportsStoredStatus ==
    (resp.op = "checkout" /\ resp.code = 201) =>
        \E o \in orders :
            /\ o.id = resp.order_id
            /\ o.order_number = resp.order_number
            /\ o.total_amount = resp.total
            /\ o.payment_status = resp.payment_status
            /\ o.status = resp.status

\* the content of a response: what is left when the routing data (the
\* worker, the caller and the path parameter of the request) is removed
Content(r) == [r EXCEPT !.worker = 0, !.user = "", !.asked = 0, !.book = 0]

\* C12: getOrder answers 200 with the order only when an order of that
\* number belongs to the caller; in every other case the answer is the one
\* fixed 404 "Order not found", whether the number is unknown or the order
\* belongs to another subject.
C12_GetOrderOwnerOnly ==
    resp.op = "get_order" =>
        LET own == {o \in orders : o.order_number = resp.asked
                                   /\ o.user_id = resp.user}
        IN IF own = {}
           THEN Content(resp)
                  = [NoResp EXCEPT !.op = "get_order", !.code = 404,
                                   !.detail = "Order not found"]
           ELSE /\ resp.code = 200
                /\ \E o \in own :
                      /\ resp.order_id = o.id
                      /\ resp.order_number = o.order_number
                      /\ resp.total = o.total_amount
                      /\ resp.status = o.status
                      /\ resp.payment_status = o.payment_status
                      /\ Len(resp.items) = Cardinality(OrderLines(o))

\* C12 witness: a subject asked for the number of another subject's order
C12_Witness ==
    /\ resp.op = "get_order" /\ resp.code = 404
    /\ \E o \in orders : o.order_number = resp.asked
                         /\ o.user_id # resp.user

----------------------------------------------------------------------------
\* C13: an update or a removal that names a line outside the caller's carts
\* answers 404 "Cart item not found", the answer given for a line id that
\* does not exist, and changes no line; a step changes the lines of a
\* subject only when it acts for that subject; the cart shown to a subject
\* holds lines of that subject only.
C13_CartIsolation ==
    [][ /\ \A u \in Users : UserLines(u)' # UserLines(u) => resp'.user = u
        /\ ( /\ resp'.op \in {"update_cart_item", "remove_from_cart"}
             /\ resp'.quantity \in 0..10
             /\ resp'.asked \notin {ci.id : ci \in UserLines(resp'.user)} )
           => /\ cartItems' = cartItems
              /\ Content([resp' EXCEPT !.quantity = 0])
                   = [NoResp EXCEPT !.op = resp'.op, !.code = 404,
                                    !.detail = "Cart item not found"]
        /\ resp'.op = "get_cart" =>
              \A i \in DOMAIN resp'.items :
                  \E ci \in cartItems', c \in carts' :
                      /\ ci.id = resp'.items[i].id
                      /\ c.id = ci.cart_id
                      /\ c.user_id = resp'.user
      ]_vars

\* an update of another subject's existing line has been answered 404
C13_Witness ==
    /\ resp.op = "update_cart_item"
    /\ resp.code = 404
    /\ resp.quantity = 3
    /\ \E ci \in cartItems :
          /\ ci.id = resp.asked
          /\ ci \notin UserLines(resp.user)
          /\ ci.quantity # 3
----------------------------------------------------------------------------
\* C14: in every reachable state the quantity of every cart line lies
\* between 1 and 10, and a request to add or to set a quantity above 10 has
\* been rejected.
C14_QuantityWithinLimits ==
    /\ \A ci \in cartItems : ci.quantity \in 1..10
    /\ ( /\ resp.op \in {"add_to_cart", "update_cart_item"}
         /\ resp.quantity > 10 )
       => resp.code = 422

\* a line raised to 8 by two adds of 4, then an add of 15 rejected
C14_Witness ==
    /\ resp.op = "add_to_cart"
    /\ resp.quantity = 15
    /\ resp.code = 422
    /\ \E ci \in cartItems : ci.quantity = 8 /\ ci.book_id = resp.book
----------------------------------------------------------------------------
\* the cart the lookups of a subject select, and the line they select in it
\* for a book
SelectedCart(u) ==
    {c \in carts : c.user_id = u /\
                    \A d \in carts : d.user_id = u => c.id <= d.id}

SelectedLine(u, b) ==
    {ci \in cartItems :
        /\ ci.book_id = b
        /\ \E c \in SelectedCart(u) : ci.cart_id = c.id
        /\ \A cj \in cartItems :
              (cj.book_id = b /\ cj.cart_id = ci.cart_id) => ci.id <= cj.id}

\* worker w takes up a request to add to a cart in this step
AddBegins(w) ==
    /\ pc[w] = "idle"
    /\ \/ pc'[w] = "ai_write"
       \/ pc'[w] = "idle" /\ resp'.op = "add_to_cart" /\ resp'.worker = w

\* the subject, the book and the quantity of the request taken up
AddRequest(w) ==
    IF pc'[w] = "ai_write"
    THEN [user |-> local'[w].user, book |-> local'[w].book,
          quantity |-> local'[w].quantity]
    ELSE [user |-> resp'.user, book |-> resp'.book,
          quantity |-> resp'.quantity]

\* C15: an add of a quantity from 1 to 10 of an available book that already
\* has a line in the caller's cart, where the line's quantity plus the
\* requested one exceeds 10, is answered 400 "Maximum 10 of same item
\* allowed in cart" and leaves every cart and every line as it was.
C15_AddBeyondLimitRejected ==
    [][ \A w \in Workers :
          ( /\ AddBegins(w)
            /\ AddRequest(w).quantity \in 1..10
            /\ AddRequest(w).book \in DOMAIN books
            /\ books[AddRequest(w).book].is_available
            /\ \E ci \in SelectedLine(AddRequest(w).user, AddRequest(w).book) :
                  ci.quantity + AddRequest(w).quantity > 10 )
          => /\ pc'[w] = "idle"
             /\ resp'.code = 400
             /\ resp'.detail = "Maximum 10 of same item allowed in cart"
             /\ cartItems' = cartItems
             /\ carts' = carts
      ]_vars

\* an add of 7 on top of a line of 4 has been rejected and the line is 4
C15_Witness ==
    /\ resp.op = "add_to_cart"
    /\ resp.code = 400
    /\ resp.quantity = 7
    /\ resp.detail = "Maximum 10 of same item allowed in cart"
    /\ \E ci \in SelectedLine(resp.user, resp.book) : ci.quantity = 4
----------------------------------------------------------------------------
\* C16: in every reachable state, under any interleaving of adds, a cart
\* holds at most one line per book.
C16_OneLinePerCartAndBook ==
    \A ci, cj \in cartItems :
        (ci.cart_id = cj.cart_id /\ ci.book_id = cj.book_id) => ci = cj

\* C17: in every reachable state, under any interleaving of adds, a subject
\* has at most one cart, and has one once an add of theirs has succeeded.
C17_OneCartPerSubject ==
    /\ \A c, d \in carts : c.user_id = d.user_id => c = d
    /\ (resp.op = "add_to_cart" /\ resp.code = 201)
          => \E c \in carts : c.user_id = resp.user
----------------------------------------------------------------------------
\* C18: a well-formed add of a book id that is not in the catalog is
\* answered 400 "Book not found", of a book whose availability flag is
\* false 400 "Book is not available"; in both cases no cart is created and
\* no line is added or changed.
C18_AddOfMissingOrUnavailableBook ==
    [][ \A w \in Workers :
          ( /\ AddBegins(w)
            /\ AddRequest(w).quantity \in 1..10
            /\ AddRequest(w).book > 0
            /\ AddRequest(w).book \in DOMAIN books
                  => ~books[AddRequest(w).book].is_available )
          => /\ pc'[w] = "idle"
             /\ resp'.code = 400
             /\ resp'.detail = IF AddRequest(w).book \in DOMAIN books
                               THEN "Book is not available"
                               ELSE "Book not found"
             /\ carts' = carts
             /\ cartItems' = cartItems
      ]_vars

\* an add of an unavailable book by a subject without a cart was refused
C18_Witness ==
    /\ resp.op = "add_to_cart"
    /\ resp.code = 400
    /\ resp.detail = "Book is not available"
    /\ \A c \in carts : c.user_id # resp.user

\* an add of an unknown book by a subject without a cart was refused
C18_WitnessUnknown ==
    /\ resp.op = "add_to_cart"
    /\ resp.code = 400
    /\ resp.detail = "Book not found"
    /\ \A c \in carts : c.user_id # resp.user
----------------------------------------------------------------------------
C19_WitnessNoCart ==
    /\ resp.op = "get_cart"
    /\ SelectedCart(resp.user) = {}
    /\ carts # {}
----------------------------------------------------------------------------
\* C20: a checkout that ends in an error leaves the store as it was when
\* it began: no order carrying its order number has been committed.
C20_FailedCheckoutLeavesNoOrder ==
    [][ \A w \in Workers :
          ( /\ pc[w] # "idle"
            /\ pc'[w] = "idle"
            /\ local[w].op = "checkout"
            /\ resp'.code >= 400 )
          => \A o \in orders' : o.order_number # local[w].order_number
      ]_vars
----------------------------------------------------------------------------
\* C21: when a checkout comes to create its order while a line of the
\* subject's cart names a book that is missing from the catalog or is not
\* available, the checkout is answered 400 and no order, no order line and
\* no payment is made and the cart stays as it is.
C21_CheckoutFailsOnMissingOrUnavailableBook ==
    [][ \A w \in Workers :
          ( /\ pc[w] = "co_create"
            /\ pc'[w] # "co_create"
            /\ \E ci \in cartItems :
                  /\ \E c \in SelectedCart(local[w].user) : ci.cart_id = c.id
                  /\ ci.book_id \in DOMAIN books
                        => ~books[ci.book_id].is_available )
          => /\ resp'.code = 400
             /\ orders' = orders
             /\ orderItems' = orderItems
             /\ paymentLog' = paymentLog
             /\ cartItems' = cartItems
      ]_vars
----------------------------------------------------------------------------
\* a query without its leading and its trailing whitespace
Trimmed(q) ==
    LET inked == {k \in DOMAIN q : q[k] \notin WhiteChars}
    IN IF inked = {} THEN <<>>
       ELSE SubSeq(q, CHOOSE i \in inked : \A k \in inked : i <= k,
                      CHOOSE j \in inked : \A k \in inked : k <= j)

\* the markers '--', '/*', '*/', ';' and the null byte
Markers == {<<"-", "-">>, <<"/", "*">>, <<"*", "/">>, <<";">>, <<"NUL">>}

HasMarker(q) ==
    \E m \in Markers, i \in DOMAIN q :
        i + Len(m) - 1 <= Len(q) /\ \A k \in DOMAIN m : q[i + k - 1] = m[k]

\* letters (a-z, A-Z), digits, whitespace and - & . , ' " : ? !
AllowListed(c) ==
    \/ c \in Letters \/ c \in Digits \/ c \in WhiteChars
    \/ c \in {"-", "&", ".", ",", "'", "\"", ":", "?", "!"}

Acceptable(q) ==
    LET t == Trimmed(q)
    IN /\ t # <<>>
       /\ Len(t) <= 255
       /\ ~HasMarker(t)
       /\ \A k \in DOMAIN t : AllowListed(t[k])

\* C22: the validation returns a query exactly when its trimmed form is
\* non-empty, at most 255 long, free of the markers and made of allow-listed
\* characters only; in every other case it raises a ValueError.
C22_SanitizeAcceptsExactlyTheAllowList ==
    resp.op = "validate_query" =>
        /\ resp.status \in {"returned", "ValueError"}
        /\ resp.status = "returned" <=> Acceptable(resp.query)

\* the query "'; DROP TABLE books; --" has been refused
C22_Witness ==
    /\ resp.op = "validate_query"
    /\ resp.query = QueryDropTable
    /\ resp.status = "ValueError"

\* 255 letters between two blanks have been accepted
C22_WitnessLongest ==
    /\ resp.op = "validate_query"
    /\ Len(resp.query) = 257
    /\ resp.status = "returned"

\* C23: a query the validation returns is the input without its leading and
\* trailing whitespace, and validating that result again returns it as it
\* is.
C23_SanitizeTrimsAndIsIdempotent ==
    (resp.op = "validate_query" /\ resp.status = "returned") =>
        /\ resp.clean = Trimmed(resp.query)
        /\ validate_and_sanitize_query(resp.clean)
             = [err |-> "", query |-> resp.clean]

\* a query with blanks around it has been returned trimmed
C23_Witness ==
    /\ resp.op = "validate_query"
    /\ resp.status = "returned"
    /\ resp.query = QueryPadded
    /\ resp.clean # resp.query
----------------------------------------------------------------------------
\* C24: a search whose query is acceptable is answered 200 whatever its
\* limit, offset and sort key are, with the limit asked when that lies in
\* 1..100 and 20 otherwise, the offset asked or 0 for a negative one, and the
\* sort key asked when it is one of the four and relevance otherwise.
C24_SearchNeverRejectsPaging ==
    (/\ resp.op = "search_books" /\ Acceptable(resp.query)
     /\ ~(resp.min_price # NoPrice /\ resp.max_price # NoPrice /\
          resp.min_price > resp.max_price)) =>
        /\ resp.code = 200
        /\ resp.limit = IF resp.asked_limit \in 1..100 THEN resp.asked_limit
                        ELSE 20
        /\ resp.offset = IF resp.asked_offset < 0 THEN 0
                         ELSE resp.asked_offset
        /\ resp.sort_by = IF resp.asked_sort \in {"relevance", "price_asc",
                                                   "price_desc", "rating"}
                          THEN resp.asked_sort ELSE "relevance"
----------------------------------------------------------------------------
\* C25: a path the gate returns is the base directory, a separator, and one
\* bare file name that ends the stored reference: a name without separator
\* that is neither "." nor ".." nor empty, so the path names an entry
\* directly inside the base directory; and when no such file exists the
\* answer is 500, not 403.
C25_ResolvedPathInsideBase ==
    (resp.op = "read" /\ resp.book \in DOMAIN books) =>
        LET ref == books[resp.book].filepath
            names == {SubSeq(ref, k, Len(ref)) : k \in 1..Len(ref)}
            bare == {n \in names : /\ \A i \in DOMAIN n : n[i] # "/"
                                   /\ n \notin {<<".">>, <<".", ".">>}}
        IN /\ resp.path # NoPath
              => \E n \in bare : /\ resp.path = BasePath \o <<"/">> \o n
                                  /\ n \in files
           /\ (Entitled(resp.user, resp.book) /\ bare \cap files = {})
              => resp.code = 500
----------------------------------------------------------------------------
\* C26: a request to read a book that is not in the catalog is answered
\* 404, whoever asks.
C26_UnknownBookIsNotFound ==
    (resp.op = "read" /\ resp.book \notin DOMAIN books) => resp.code = 404
----------------------------------------------------------------------------
\* C27: a request under which an exception was raised is answered 500 with
\* a body that holds nothing of the exception's text.
C27_NoExceptionTextInResponses ==
    resp.raised # "" => (resp.code = 500 /\ resp.leak = "")
----------------------------------------------------------------------------
\* the lines of the cart the lookup selects for u
CartLines(u) ==
    {ci \in cartItems : \E c \in SelectedCart(u) : ci.cart_id = c.id}

C28_WitnessNoCart ==
    /\ resp.op = "clear_cart"
    /\ \A c \in carts : c.user_id # resp.user
    /\ cartItems # {}
----------------------------------------------------------------------------
\* the limit listOrders is to apply: the asked limit brought into [1, 100]
ClampedLimit(limit) ==
    IF limit < 1 THEN 1 ELSE IF limit > 100 THEN 100 ELSE limit

\* C29: listOrders is answered with orders of the caller only, newest
\* first, and with at most min(max(limit, 1), 100) of them, whatever limit
\* was asked: a limit out of range is not rejected.
C29_ListOrdersClampsLimit ==
    resp.op = "get_user_orders" =>
        /\ resp.code = 200
        /\ Len(resp.items) <= ClampedLimit(resp.asked_limit)
        /\ \A i \in 1..Len(resp.items) :
              \E o \in orders : o.id = resp.items[i].id /\ o.user_id = resp.user
        /\ \A i, j \in 1..Len(resp.items) :
              i < j => resp.items[i].id > resp.items[j].id
----------------------------------------------------------------------------
\* what of an order is written once: everything but the two statuses
Written(o) ==
    [id |-> o.id, order_number |-> o.order_number, user_id |-> o.user_id,
     total_amount |-> o.total_amount, payment_method |-> o.payment_method,
     shipping_address |-> o.shipping_address]

\* C30: no step changes anything of a stored order but its status and
\* payment_status: the order is still stored with the id, order number,
\* subject, total, payment method and shipping address it had, and with
\* the very lines (title, author, quantity, unit price, subtotal) it had,
\* also when the step changes the price or title of a catalog item; and in
\* every state the total of each order is the sum of its lines' subtotals.
C30_OrdersAreSnapshots ==
    /\ [](\A o \in orders :
            o.total_amount = SumField(OrderLines(o), "subtotal"))
    /\ [][\A o \in orders :
            /\ \E n \in orders' : n.id = o.id /\ Written(n) = Written(o)
            /\ \A n \in orders' : n.id = o.id => Written(n) = Written(o)
            /\ {oi \in orderItems' : oi.order_id = o.id} = OrderLines(o)]_vars

\* C30 witness: a settled order has a line whose title or price is no
\* longer that of the catalog item
C30_Witness ==
    \E o \in orders :
        /\ o.status \in {"completed", "failed"}
        /\ o.payment_method = PaymentMethodOf[o.user_id]
        /\ \E oi \in OrderLines(o) :
              \/ books[oi.book_id].title # oi.book_title
              \/ books[oi.book_id].price # oi.price
----------------------------------------------------------------------------
\* C31: no step of a cart, checkout, payment or purchase operation takes an
\* entitlement away: a subject who owns a book before the step owns it
\* after the step, so ownership once true stays true.
C31_EntitlementsAreKept ==
    [][\A u \in Users, b \in ReqBookIds :
          Entitled(u, b) =>
              \E p \in purchases' : p.auth0_user_id = u /\ p.book_id = b]_vars

\* C31 witness: a subject who owns a book has bought a second one and a
\* checkout has been answered since
C31_Witness ==
    /\ resp.op = "checkout"
    /\ \E u \in Users : \A b \in BookIds : Entitled(u, b)
----------------------------------------------------------------------------
OrderStatuses == {"pending", "completed", "failed"}

\* C32: in every state each order's status is pending, completed or failed
\* and equals its payment_status; a step either leaves both as they were or
\* takes a pending order to completed or to failed, so that a completed or
\* failed order keeps its status and payment_status for good.
C32_OrderStatusMovesOnce ==
    /\ [](\A o \in orders :
            o.status \in OrderStatuses /\ o.status = o.payment_status)
    /\ [][\A o \in orders, n \in orders' :
            n.id = o.id =>
               \/ n.status = o.status /\ n.payment_status = o.payment_status
               \/ /\ o.status = "pending"
                  /\ n.status \in {"completed", "failed"}]_vars

\* C32 witness: a failed order and a completed order are stored and a
\* response has been given since
C32_Witness ==
    /\ \E o \in orders : o.status = "failed"
    /\ \E o \in orders : o.status = "completed"
    /\ resp.op = "checkout"
----------------------------------------------------------------------------
\* how often the gateway was called for order i
Payments(i) == Cardinality({k \in 1..Len(paymentLog) : paymentLog[k] = i})

Pending(i) == \E o \in orders : o.id = i /\ o.status = "pending"

Settled(i) == \E o \in orders : o.id = i /\ o.status \in {"completed", "failed"}

----------------------------------------------------------------------------
\* C34: every cart line that the clearing step of a completed checkout
\* deletes is a line of the order that checkout created, with the same
\* book and the same quantity.
C34_ClearedLinesWereOrdered ==
    [][\A w \in Workers :
          (pc[w] = "co_clear" /\ pc'[w] = "idle") =>
              \A ci \in cartItems \ cartItems' :
                  \E oi \in orderItems :
                      /\ oi.order_id = local[w].order_id
                      /\ oi.book_id = ci.book_id
                      /\ oi.quantity = ci.quantity]_vars
----------------------------------------------------------------------------
\* C35: an addItem that found the line of its item and succeeds raises that
\* line's quantity, as it is when the add commits, by the quantity asked,
\* as long as the limit allows the sum: with a line of q and two adds of a
\* and b that overlap, q + a + b <= 10, the line ends at q + a + b.
C35_NoIncrementIsLost ==
    [][\A w \in Workers :
          (/\ pc[w] = "ai_write" /\ pc'[w] = "idle" /\ resp'.code = 201
           /\ local[w].items # <<>>) =>
              \A ci \in cartItems :
                  (/\ ci.id = local[w].items[1].id
                   /\ ci.quantity + local[w].quantity <= MaxQuantity) =>
                      \E cj \in cartItems' :
                          /\ cj.id = ci.id
                          /\ cj.quantity = ci.quantity + local[w].quantity]_vars
----------------------------------------------------------------------------
\* C36: the add that creates a cart line reads the catalog price of the
\* book and stores it as the line's price_at_addition, and no later step
\* changes the price_at_addition of a line that stays in the cart: not an
\* add of the same book, not an update of the quantity, not a change of
\* the catalog price.
C36_PriceSnapshotIsFixed ==
    [][/\ \A ci \in cartItems, cj \in cartItems' :
            cj.id = ci.id => cj.price_at_addition = ci.price_at_addition
       /\ \A w \in Workers :
            /\ (pc[w] = "idle" /\ pc'[w] = "ai_write") =>
                  local'[w].total = books[local'[w].book].price
            /\ (pc[w] = "ai_write" /\ pc'[w] = "ai_write") =>
                  local'[w] = local[w]
            /\ (pc[w] = "ai_write" /\ pc'[w] = "idle") =>
                  \A cj \in cartItems' :
                      (\A ci \in cartItems : ci.id # cj.id) =>
                          /\ cj.book_id = local[w].book
                          /\ cj.price_at_addition = local[w].total]_vars

\* C36 witness: the quantity of a line has just been updated and the
\* line's price_at_addition is not the catalog price of now
C36_Witness ==
    /\ resp.op = "update_cart_item" /\ resp.code = 200
    /\ \E ci \in cartItems :
          /\ ci.id = resp.asked
          /\ ci.quantity = resp.quantity
          /\ ci.price_at_addition # books[ci.book_id].price
----------------------------------------------------------------------------
\* the available books that match the text and every filter given
Matching(query, category, min_price, max_price) ==
    {b \in DOMAIN books :
        /\ books[b].is_available
        /\ \E column \in {books[b].title, books[b].author, DescriptionOf[b]} :
              contains(lower(text(column)), lower(query))
        /\ min_price = NoPrice \/ books[b].price >= min_price
        /\ max_price = NoPrice \/ books[b].price <= max_price
        /\ category = "" \/ CategoryOf[b] = category}

\* C37: a search answered 200 reports as total the number of available
\* books that match the text and every filter given, returns only such
\* books, and has_more is true exactly when there are more of them than
\* offset + limit.
C37_SearchTotalCountsFilteredMatches ==
    (resp.op = "search_books" /\ resp.code = 200) =>
        LET matching == Matching(resp.clean, resp.category, resp.min_price,
                                 resp.max_price)
        IN /\ resp.total = Cardinality(matching)
           /\ \A i \in 1..Len(resp.items) : resp.items[i] \in matching
           /\ resp.has_more
                 <=> (Cardinality(matching) > resp.offset + resp.limit)
----------------------------------------------------------------------------
\* C38: for every purchase the downloads granted and the download_count
\* are at most max_downloads, and a download request goes on to a grant
\* only for an active user with a registered device and a completed
\* purchase of the very book asked.
C38_DownloadsWithinLimit ==
    /\ \A p \in flask.purchases :
          p.granted <= max_downloads /\ p.download_count <= max_downloads
    /\ \A w \in Workers :
          pc[w] = "fd_increment" =>
             \E p \in flask.purchases :
                 /\ p.id = local[w].purchase_id
                 /\ p.user_id = local[w].user /\ p.book_id = local[w].book
                 /\ p.status = "completed"
    /\ (resp.op = "download_book" /\ resp.code = 200) =>
          \E p \in flask.purchases :
              /\ p.id = resp.purchase_id
              /\ p.user_id = resp.user /\ p.book_id = resp.book
              /\ p.status = "completed"
----------------------------------------------------------------------------
\* the completed purchases of book b by user u in the Flask store
CompletedPurchases(u, b) ==
    {p \in flask.purchases :
        p.user_id = u /\ p.book_id = b /\ p.status = "completed"}

\* C39: in every state there is at most one completed purchase per user
\* and book, and a purchase request of a user who owns the book is
\* answered 409 and adds no record.
C39_OneCompletedPurchasePerUserAndBook ==
    /\ [](\A u \in Users, b \in BookIds :
            Cardinality(CompletedPurchases(u, b)) <= 1)
    /\ [][\A w \in Workers :
            (/\ pc[w] = "idle" /\ pc'[w] = "idle"
             /\ resp'.op = "purchase_book" /\ resp'.worker = w
             /\ resp'.user \notin flask.inactive
             /\ CompletedPurchases(resp'.user, resp'.book) # {}) =>
                resp'.code = 409 /\ flask' = flask]_vars
====
